---- MODULE Spec2Model ----
(***************************************************************************)
(* PerkChat: the realtime coordination layer.                              *)
(*                                                                         *)
(*  SpecChat  chatStore (messages, read receipts, realtime handlers) over  *)
(*            the messages / profiles tables.                              *)
(***************************************************************************)
EXTENDS Integers, Sequences, FiniteSets, TLC

(* ------------------------------------------------------------------ *)
(* Bounds                                                               *)
(* ------------------------------------------------------------------ *)
MaxMsgs == 2
MaxEdits == 1
MaxDup == 1
MaxConnects == 2
MaxCalls == 2
MaxHandlers == 2
MaxRing == 1
MaxEmits == 3
MaxWsCalls == 1
MaxTypingReqs == 3    \* startTyping / stopTyping calls
MaxTypingEmits == 3   \* sendTypingIndicator calls
MaxCacheIds == 3      \* messages known to the cache manager's callers
MaxCacheList == 2     \* length of a list handed to the cache manager
MaxCacheClock == 1    \* Date.now() as the cache manager reads it
MaxReconnectTimers == 2  \* reconnect timeouts pending at once

(* Program constants *)
MESSAGES_PER_PAGE == 50

Users == {"u1", "u2", "u3"}
Convs == {"c1", "c2"}

\* users whose chatStore instance is modelled; u3 takes part as a remote sender
Clients == {"u1", "u2"}

\* conversations rows: participant_one / participant_two of each conversation
Participants(c) == IF c = "c1" THEN {"u1", "u2"} ELSE {"u2", "u3"}

ConvsOf(u) == {c \in Convs : u \in Participants(c)}

VARIABLES
    \* ---- storage (tables) ----
    dbMessages,       \* messages table: sequence of rows, id = index
    dbProfiles,       \* profiles.status per user
    dbConvUpdated,    \* conversations.updated_at per conversation
    typingRows,       \* typing_indicators rows: set of <<conversation, user>>
    now,              \* database clock (now())
    \* ---- chatStore, one instance per user ----
    messages,         \* state.messages[conversationId]
    unread,           \* state.conversations[..].unread_count
    connectionStatus,
    typingTimeouts,   \* module-level typingTimeouts map: set of conversations
    cache,            \* messageCacheManager cache as chatStore uses it
    \* ---- realtime transport ----
    inbox,            \* postgres_changes events in flight to each client
    dupLeft,          \* remaining duplicate deliveries (at-least-once)
    editsLeft,        \* remaining edits
    connectsLeft,     \* remaining subscribeToRealtime calls
    lastOp,           \* the store operation that ran last (observer)
    \* ---- call_sessions table ----
    callSessions,     \* sequence of rows, id = index
    \* ---- callStore, one instance per user ----
    currentCall,
    incomingCall,
    isCallActive,
    pendingOp,        \* the store action awaiting its edge function's reply
    handling,         \* postgres_changes callbacks between start and end
    callInbox,        \* call_sessions events in flight to each client
    \* ---- WebSocketManager (one instance) ----
    wsIsConnected,
    wsMessageQueue,   \* messageQueue: emits made while disconnected
    wsEmitTimers,     \* emit's setTimeout callbacks not yet run
    wsResponseTimers, \* simulateServerResponse's setTimeout callbacks not yet run
    wsOnCall,         \* onCallReceived / onCallStatusUpdate are set
    wsNextCall,       \* calls started so far
    wsEmits,          \* call emits made so far
    wsCallLog,        \* what the call callbacks were handed, in order (observer)
    wsTypingTimeouts, \* typingTimeouts map: conversations with a pending timeout
    wsTypingLog,      \* typing-start / typing-stop emits, in order (observer)
    \* ---- typing indicators: chatStore and the typing_indicators channel ----
    typingOps,        \* startTyping / stopTyping calls between their awaits
    typingIndicators, \* state.typingIndicators per store
    typingInbox,      \* typing_indicators events in flight to each client
    typingSeq,        \* typing requests made so far (ids of calls, rows, events)
    \* ---- presence, conversations ----
    extraSession,     \* a second tab of the user is subscribed
    convRows,         \* conversations rows created by createConversation
    createPending,    \* createConversation calls between check and insert
    \* ---- MessageInput, one per client ----
    inputMessage,     \* the textarea's message state
    typingTimeoutRef, \* the component's own stop timer is pending
    submitting,       \* messageContent of a handleSubmit awaiting sendMessage
    \* ---- callStore: WebRTC ----
    isMuted,
    localStream,      \* a MediaStream is held
    remoteStream,
    peerConnection,   \* an RTCPeerConnection is held
    mediaOpened,      \* setupWebRTC obtained a stream at some time (observer)
    \* ---- MessageCacheManager (one instance) ----
    mcCache,          \* cache[conversationId]: messages, lastFetched, hasMore
    mcPendingUpdates, \* pendingUpdates: message id -> fields to set
    mcBatchTimeout,   \* the batch timer is pending
    \* ---- WebSocketManager: connection upkeep ----
    wsUserId,         \* userId is set
    wsReconnectAttempts,
    wsCheckIntervals, \* connection-check intervals running
    wsReconnectTimers \* attemptReconnect's setTimeout callbacks not yet run

chatVars == <<dbMessages, dbProfiles, dbConvUpdated, typingRows, now, messages,
              unread, connectionStatus, typingTimeouts,
              cache, inbox, dupLeft, editsLeft, connectsLeft, lastOp>>

callVars == <<callSessions, currentCall, incomingCall, isCallActive, pendingOp,
              handling, callInbox>>

wsVars == <<wsIsConnected, wsMessageQueue, wsEmitTimers, wsResponseTimers,
            wsOnCall, wsNextCall, wsEmits, wsCallLog>>

typingVars == <<typingOps, typingIndicators, typingInbox, typingSeq>>

extVars == <<wsTypingTimeouts, wsTypingLog, typingVars, extraSession, convRows,
             createPending>>

mediaVars == <<isMuted, localStream, remoteStream, peerConnection, mediaOpened>>

mcVars == <<mcCache, mcPendingUpdates, mcBatchTimeout>>

wsConnVars == <<wsUserId, wsReconnectAttempts, wsCheckIntervals,
                wsReconnectTimers>>

inputVars == <<inputMessage, typingTimeoutRef, submitting>>

auxVars == <<inputVars, mediaVars, mcVars, wsConnVars>>

vars == <<chatVars, callVars, wsVars, extVars, auxVars>>

(* ------------------------------------------------------------------ *)
(* Helpers                                                              *)
(* ------------------------------------------------------------------ *)
Rank(s) == CASE s = "sent" -> 0 [] s = "delivered" -> 1 [] s = "read" -> 2

\* an UPDATE statement emits one UPDATE event per row its WHERE clause matched,
\* carrying the new row
RowEvents(new, ids) == {[type |-> "UPDATE", new |-> new[i]] : i \in ids}

\* postgres_changes fan-out: every subscribed client that may SELECT the row
Broadcast(ib, conn, events) ==
    [u \in Users |->
        IF conn[u] = "connected"
        THEN ib[u] \cup {e \in events : u \in Participants(e.new.conversation_id)}
        ELSE ib[u]]

\* .eq('conversation_id', c).order('created_at', desc).limit(50), reversed
SelectPage(db, c) ==
    LET rows == SelectSeq(db, LAMBDA m : m.conversation_id = c)
        n == Len(rows)
    IN  IF n <= MESSAGES_PER_PAGE THEN rows
        ELSE SubSeq(rows, n - MESSAGES_PER_PAGE + 1, n)

\* count of messages of c not sent by u and not read
UnreadCount(db, u, c) ==
    Len(SelectSeq(db, LAMBDA m : m.conversation_id = c /\ m.sender_id # u
                                  /\ m.status # "read"))

\* fetchConversations: unread_count recomputed for each conversation of u
FetchConversations(ur, db, u) ==
    [ur EXCEPT ![u] = [c \in Convs |->
        IF c \in ConvsOf(u) THEN UnreadCount(db, u, c) ELSE ur[u][c]]]

(* ------------------------------------------------------------------ *)
(* Storage commands                                                     *)
(* ------------------------------------------------------------------ *)
\* variants of the commands below with one clause left out
MarkReadMatchAnySender(db, u, c) ==
    {i \in DOMAIN db : db[i].conversation_id = c /\ db[i].status # "read"}

MarkReadMatchAnyStatus(db, u, c) ==
    {i \in DOMAIN db : db[i].conversation_id = c /\ db[i].sender_id # u}

ProfileOnlineNoWrite(p, u) == p

\* markAsRead's WHERE clause:
\*   .eq('conversation_id', c).neq('sender_id', u).neq('status', 'read')
MarkReadMatch(db, u, c) ==
    {i \in DOMAIN db : db[i].conversation_id = c /\ db[i].sender_id # u
                       /\ db[i].status # "read"}

\* markAsRead's .update({ status: 'read' }) on the matched rows
MarkReadRows(db, u, c) ==
    [i \in DOMAIN db |->
        IF i \in MarkReadMatch(db, u, c)
        THEN [db[i] EXCEPT !.status = "read"] ELSE db[i]]

\* setUserOnline's UPDATE profiles SET status = 'online' WHERE id = u
ProfileOnline(p, u) == [p EXCEPT ![u] = "online"]

\* setUserOffline's UPDATE profiles SET status = 'offline' WHERE id = u
ProfileOffline(p, u) == [p EXCEPT ![u] = "offline"]

\* connect hook of the store: pending 'sent' messages addressed to u, in all
\* of u's conversations, become 'delivered' when u's profile turns online
PromoteMatch(db, pOld, pNew, u) ==
    IF pOld[u] # "online" /\ pNew[u] = "online"
    THEN {i \in DOMAIN db : /\ u \in Participants(db[i].conversation_id)
                            /\ db[i].sender_id # u
                            /\ db[i].status = "sent"}
    ELSE {}

PromoteDelivered(db, pOld, pNew, u) ==
    [i \in DOMAIN db |->
        IF i \in PromoteMatch(db, pOld, pNew, u)
        THEN [db[i] EXCEPT !.status = "delivered"] ELSE db[i]]

(* ------------------------------------------------------------------ *)
(* chatStore realtime handlers                                          *)
(* ------------------------------------------------------------------ *)
\* messages onInsert: [...conversationMessages, messageWithSender]
OnInsert(list, m) == Append(list, m)

\* messages onUpdate: map(msg => msg.id === updated.id ? {...msg, ...updated} : msg)
OnUpdate(list, m) ==
    [i \in DOMAIN list |-> IF list[i].id = m.id THEN m ELSE list[i]]

\* setCachedMessages: [...messages].sort(by created_at)   (insertion sort, stable)
RECURSIVE SortByCreated(_)
SortByCreated(s) ==
    IF Len(s) <= 1 THEN s
    ELSE LET rest == SortByCreated(SubSeq(s, 1, Len(s) - 1))
             x == s[Len(s)]
             k == Cardinality({i \in DOMAIN rest : rest[i].created_at <= x.created_at})
         IN  SubSeq(rest, 1, k) \o <<x>> \o SubSeq(rest, k + 1, Len(rest))

(* ------------------------------------------------------------------ *)
(* Init                                                                 *)
(* ------------------------------------------------------------------ *)
\* no cache[conversationId] entry
NoCacheEntry == [exists |-> FALSE, messages |-> <<>>, lastFetched |-> 0,
                 hasMore |-> TRUE]

NoOp == [op |-> "none", user |-> "none", conv |-> "none", rep |-> 0]

InitChatState ==
    /\ dbMessages = <<>>
    /\ dbProfiles = [u \in Users |-> "offline"]
    /\ dbConvUpdated = [c \in Convs |-> 0]
    /\ typingRows = {}
    /\ now = 0
    /\ messages = [u \in Users |-> [c \in Convs |-> <<>>]]
    /\ unread = [u \in Users |-> [c \in Convs |-> 0]]
    /\ connectionStatus = [u \in Users |-> "disconnected"]
    /\ typingTimeouts = [u \in Users |-> {}]
    /\ cache = [u \in Users |-> [c \in Convs |-> <<>>]]
    /\ inbox = [u \in Users |-> {}]
    /\ lastOp = NoOp

(* ------------------------------------------------------------------ *)
(* typing_indicators: storage commands and the store's list             *)
(* ------------------------------------------------------------------ *)
\* the rows of one (conversation, user) pair
TypingRowsOf(rows, c, u) ==
    {r \in rows : r.conversation_id = c /\ r.user_id = u}

TypingRow(id, c, u) ==
    [id |-> id, conversation_id |-> c, user_id |-> u, updated_at |-> id]

\* variant of addTypingIndicator that appends without filtering
AddTypingIndicatorNoFilter(list, indicator) == Append(list, indicator)

\* startTyping's upsert({conversation_id, user_id, username, updated_at}) on a
\* table with UNIQUE(conversation_id, user_id). The call names no conflict
\* target: when the pair has a row, the statement either fails on the unique
\* constraint (conflict resolved on the primary key) and the row stays as it
\* is, or is merged into the row (merge); startTyping does not look at the
\* result
TypingUpsert(rows, c, u, id, merge) ==
    IF TypingRowsOf(rows, c, u) = {}
    THEN rows \cup {TypingRow(id, c, u)}
    ELSE IF merge
         THEN {IF r \in TypingRowsOf(rows, c, u)
               THEN [r EXCEPT !.updated_at = id] ELSE r : r \in rows}
         ELSE rows

\* postgres_changes events of a command that took the table from old to new
TypingEvents(old, new) ==
    {[type |-> "INSERT", row |-> r] :
        r \in {x \in new : \A y \in old : y.id # x.id}}
    \cup {[type |-> "UPDATE", row |-> r] :
        r \in {x \in new : \E y \in old : y.id = x.id /\ y # x}}
    \cup {[type |-> "DELETE", row |-> r] :
        r \in {x \in old : \A y \in new : y.id # x.id}}

\* stopTyping's delete().eq(conversation_id).eq(user_id)
TypingDelete(rows, c, u) == rows \ TypingRowsOf(rows, c, u)

\* typing channel: the events of a row reach the subscribed clients; the
\* handlers of the typing user's own store leave its list as it is
TypingBroadcast(ib, conn, u, evs) ==
    [v \in Users |->
        IF v # u /\ conn[v] = "connected"
        THEN ib[v] \cup {e \in evs : v \in Participants(e.row.conversation_id)}
        ELSE ib[v]]

\* addTypingIndicator: the pair's entry is filtered out, the new one appended
AddTypingIndicator(list, indicator) ==
    Append(SelectSeq(list, LAMBDA t : ~(/\ t.conversationId = indicator.conversationId
                                        /\ t.userId = indicator.userId)),
           indicator)

\* removeTypingIndicator
RemoveTypingIndicator(list, c, u) ==
    SelectSeq(list, LAMBDA t : ~(t.conversationId = c /\ t.userId = u))

InitExtState ==
    /\ wsTypingTimeouts = {}
    /\ wsTypingLog = <<>>
    /\ typingOps = [u \in Users |-> {}]
    /\ typingIndicators = [u \in Users |-> <<>>]
    /\ typingInbox = [u \in Users |-> {}]
    /\ typingSeq = 0
    /\ extraSession = [u \in Users |-> FALSE]
    /\ convRows = <<>>
    /\ createPending = {}

InitAuxState ==
    /\ inputMessage = [u \in Users |-> ""]
    /\ typingTimeoutRef = [u \in Users |-> FALSE]
    /\ submitting = [u \in Users |-> ""]
    /\ isMuted = [u \in Users |-> FALSE]
    /\ localStream = [u \in Users |-> FALSE]
    /\ remoteStream = [u \in Users |-> FALSE]
    /\ peerConnection = [u \in Users |-> FALSE]
    /\ mediaOpened = [u \in Users |-> FALSE]
    /\ mcCache = [c \in Convs |-> NoCacheEntry]
    /\ mcPendingUpdates = <<>>
    /\ mcBatchTimeout = FALSE
    /\ wsUserId = FALSE
    /\ wsReconnectAttempts = 0
    /\ wsCheckIntervals = FALSE
    /\ wsReconnectTimers = 0

(* ------------------------------------------------------------------ *)
(* chatStore actions                                                    *)
(* ------------------------------------------------------------------ *)
\* observer: markAsRead(c) by u ran; rep counts calls in a row (capped at 2)
MarkOp(u, c) ==
    [op |-> "markAsRead", user |-> u, conv |-> c,
     rep |-> IF lastOp.op = "markAsRead" /\ lastOp.user = u /\ lastOp.conv = c
             THEN 2 ELSE 1]

\* markAsRead(conversationId) by user u: one UPDATE, then unread_count := 0
MarkAsReadEffect(u, c) ==
    LET db2 == MarkReadRows(dbMessages, u, c)
    IN  /\ dbMessages' = db2
        /\ inbox' = Broadcast(inbox, connectionStatus,
                              RowEvents(db2, MarkReadMatch(dbMessages, u, c)))
        /\ unread' = [unread EXCEPT ![u][c] = 0]
        /\ lastOp' = MarkOp(u, c)

\* setActiveConversation(conversationId): set, then markAsRead
\* (activeConversation itself is read by the layout only and is not kept)
SetActiveConversation(u, c) ==
    /\ u \in Participants(c)
    /\ MarkAsReadEffect(u, c)
    /\ UNCHANGED <<dbProfiles, dbConvUpdated, typingRows, now, messages,
                   connectionStatus, typingTimeouts, cache, dupLeft, editsLeft,
                   connectsLeft,
                   callVars, wsVars>>
    /\ UNCHANGED extVars
    /\ UNCHANGED auxVars

\* fetchMessages(conversationId): from the cache when it has messages,
\* otherwise from storage, then cache, then markAsRead
FetchMessages(u, c) ==
    /\ u \in Participants(c)
    /\ IF cache[u][c] # <<>>
       THEN /\ messages' = [messages EXCEPT ![u][c] = cache[u][c]]
            /\ lastOp' = NoOp
            /\ UNCHANGED <<dbMessages, inbox, unread, cache>>
       ELSE LET sorted == SelectPage(dbMessages, c)
            IN  /\ cache' = [cache EXCEPT ![u][c] = SortByCreated(sorted)]
                /\ messages' = [messages EXCEPT ![u][c] = sorted]
                /\ MarkAsReadEffect(u, c)
    /\ UNCHANGED <<dbProfiles, dbConvUpdated, typingRows, now,
                   connectionStatus, typingTimeouts, dupLeft, editsLeft,
                   connectsLeft,
                   callVars, wsVars>>
    /\ UNCHANGED extVars
    /\ UNCHANGED auxVars

\* getCachedMessages: an entry older than CACHE_DURATION reads as empty
ExpireCache(u, c) ==
    /\ cache[u][c] # <<>>
    /\ cache' = [cache EXCEPT ![u][c] = <<>>]
    /\ lastOp' = NoOp
    /\ UNCHANGED <<dbMessages, dbProfiles, dbConvUpdated, typingRows, now,
                   messages, unread, connectionStatus, typingTimeouts, inbox,
                   dupLeft, editsLeft, connectsLeft,
                   callVars, wsVars>>
    /\ UNCHANGED extVars
    /\ UNCHANGED auxVars

\* sendMessage(conversationId, content): stopTyping, INSERT with status
\* 'sent', conversation timestamp; ok = FALSE is a failed storage write
SendMessageSteps(u, c, ok) ==
    /\ u \in Participants(c)
    /\ Len(dbMessages) < MaxMsgs
    /\ typingRows' = TypingDelete(typingRows, c, u)
    /\ typingInbox' = TypingBroadcast(typingInbox, connectionStatus, u,
                                      TypingEvents(typingRows, typingRows'))
    /\ typingTimeouts' = [typingTimeouts EXCEPT ![u] = @ \ {c}]
    /\ lastOp' = NoOp
    /\ IF ok
       THEN LET row == [id |-> Len(dbMessages) + 1, conversation_id |-> c,
                        sender_id |-> u, status |-> "sent",
                        created_at |-> now + 1, edited |-> FALSE]
            IN  /\ dbMessages' = Append(dbMessages, row)
                /\ now' = now + 1
                /\ dbConvUpdated' = [dbConvUpdated EXCEPT ![c] = now + 1]
                /\ inbox' = Broadcast(inbox, connectionStatus,
                                      {[type |-> "INSERT", new |-> row]})
       ELSE UNCHANGED <<dbMessages, now, dbConvUpdated, inbox>>
    /\ UNCHANGED <<dbProfiles, messages, unread, connectionStatus, cache,
                   dupLeft, editsLeft, connectsLeft,
                   callVars, wsVars>>
    /\ UNCHANGED <<wsTypingTimeouts, wsTypingLog, typingOps, typingIndicators,
                   typingSeq, extraSession, convRows, createPending>>

\* sendMessage called on its own
SendMessage(u, c, ok) ==
    /\ SendMessageSteps(u, c, ok)
    /\ UNCHANGED auxVars

\* whether the promise of sendMessage rejects: its catch block logs, toasts
\* and returns, whatever was thrown
SendMessageRejects(ok) == FALSE

\* editMessage(messageId, content) by the sender (the UI offers it on own
\* messages only): UPDATE content, edited = true
EditMessage(u, id) ==
    /\ id \in DOMAIN dbMessages
    /\ dbMessages[id].sender_id = u
    /\ editsLeft > 0
    /\ editsLeft' = editsLeft - 1
    /\ lastOp' = NoOp
    /\ LET db2 == [dbMessages EXCEPT ![id].edited = TRUE]
       IN  /\ dbMessages' = db2
           /\ inbox' = Broadcast(inbox, connectionStatus,
                                 {[type |-> "UPDATE", new |-> db2[id]]})
    /\ UNCHANGED <<dbProfiles, dbConvUpdated, typingRows, now, messages,
                   unread, connectionStatus, typingTimeouts, cache, dupLeft,
                   connectsLeft,
                   callVars, wsVars>>
    /\ UNCHANGED extVars
    /\ UNCHANGED auxVars

\* subscribeToRealtime: channels created, connectionStatus connected, then
\* setUserOnline
SubscribeToRealtime(u) ==
    /\ connectionStatus[u] = "disconnected"
    /\ connectsLeft > 0
    /\ connectsLeft' = connectsLeft - 1
    /\ lastOp' = NoOp
    /\ connectionStatus' = [connectionStatus EXCEPT ![u] = "connected"]
    /\ dbProfiles' = ProfileOnline(dbProfiles, u)
    /\ LET db2 == PromoteDelivered(dbMessages, dbProfiles, dbProfiles', u)
       IN  /\ dbMessages' = db2
           /\ inbox' = Broadcast(inbox, connectionStatus',
                                 RowEvents(db2, PromoteMatch(dbMessages, dbProfiles,
                                                             dbProfiles', u)))
    /\ UNCHANGED <<dbConvUpdated, typingRows, now, messages, unread,
                   typingTimeouts, cache, dupLeft, editsLeft,
                   callVars, wsVars>>
    /\ UNCHANGED extVars
    /\ UNCHANGED auxVars

\* unsubscribeFromRealtime: channels removed, typing timeouts cleared,
\* setUserOffline, connectionStatus disconnected, typingIndicators emptied
UnsubscribeFromRealtime(u) ==
    /\ connectionStatus[u] = "connected"
    /\ lastOp' = NoOp
    /\ connectionStatus' = [connectionStatus EXCEPT ![u] = "disconnected"]
    /\ inbox' = [inbox EXCEPT ![u] = {}]
    /\ typingTimeouts' = [typingTimeouts EXCEPT ![u] = {}]
    /\ dbProfiles' = ProfileOffline(dbProfiles, u)
    /\ UNCHANGED <<dbMessages, dbConvUpdated, typingRows, now, messages,
                   unread, cache, dupLeft, editsLeft, connectsLeft,
                   callVars, wsVars>>
    /\ typingIndicators' = [typingIndicators EXCEPT ![u] = <<>>]
    /\ typingInbox' = [typingInbox EXCEPT ![u] = {}]
    /\ UNCHANGED <<wsTypingTimeouts, wsTypingLog, typingOps, typingSeq,
                   extraSession, convRows, createPending>>
    /\ UNCHANGED auxVars

\* subscribeToRealtime of a second session (another tab or device) of user
\* u: the same storage writes; that session's own lists are not followed
SecondSessionSubscribe(u) ==
    /\ ~extraSession[u]
    /\ extraSession' = [extraSession EXCEPT ![u] = TRUE]
    /\ lastOp' = NoOp
    /\ dbProfiles' = ProfileOnline(dbProfiles, u)
    /\ LET db2 == PromoteDelivered(dbMessages, dbProfiles, dbProfiles', u)
       IN  /\ dbMessages' = db2
           /\ inbox' = Broadcast(inbox, connectionStatus,
                                 RowEvents(db2, PromoteMatch(dbMessages, dbProfiles,
                                                             dbProfiles', u)))
    /\ UNCHANGED <<dbConvUpdated, typingRows, now, messages, unread,
                   connectionStatus, typingTimeouts, cache, dupLeft, editsLeft,
                   connectsLeft, callVars, wsVars>>
    /\ UNCHANGED <<wsTypingTimeouts, wsTypingLog, typingVars, convRows,
                   createPending>>
    /\ UNCHANGED auxVars

\* unsubscribeFromRealtime of the second session of u: setUserOffline
SecondSessionUnsubscribe(u) ==
    /\ extraSession[u]
    /\ extraSession' = [extraSession EXCEPT ![u] = FALSE]
    /\ lastOp' = NoOp
    /\ dbProfiles' = ProfileOffline(dbProfiles, u)
    /\ UNCHANGED <<dbMessages, dbConvUpdated, typingRows, now, messages, unread,
                   connectionStatus, typingTimeouts, cache, inbox, dupLeft,
                   editsLeft, connectsLeft, callVars, wsVars>>
    /\ UNCHANGED <<wsTypingTimeouts, wsTypingLog, typingVars, convRows,
                   createPending>>
    /\ UNCHANGED auxVars

(* ------------------------------------------------------------------ *)
(* Conversations: createConversation                                    *)
(* ------------------------------------------------------------------ *)
\* rows of conversations between a and b, in either column order
ConvRowsOfPair(rows, a, b) ==
    {i \in DOMAIN rows :
        \/ rows[i].participant_one = a /\ rows[i].participant_two = b
        \/ rows[i].participant_one = b /\ rows[i].participant_two = a}

\* UNIQUE(participant_one, participant_two): the ordered pair is taken
ConvUniqueViolated(rows, a, b) ==
    \E i \in DOMAIN rows :
        rows[i].participant_one = a /\ rows[i].participant_two = b

ConvFrame ==
    UNCHANGED <<chatVars, callVars, wsVars, wsTypingTimeouts, wsTypingLog,
                typingVars, extraSession, auxVars>>

\* createConversation up to the existence check: maybeSingle() yields a row
\* only when exactly one matches; the call returns its id, otherwise it goes
\* on to the insert
CreateConversationCheck(u, o) ==
    /\ u # o
    /\ [user |-> u, other |-> o] \notin createPending
    /\ createPending' =
           IF Cardinality(ConvRowsOfPair(convRows, u, o)) = 1
           THEN createPending
           ELSE createPending \cup {[user |-> u, other |-> o]}
    /\ UNCHANGED convRows
    /\ ConvFrame

\* createConversation from the insert on: the row is stored unless the
\* unique constraint rejects it, in which case the error is thrown
CreateConversationInsert(u, o) ==
    /\ [user |-> u, other |-> o] \in createPending
    /\ createPending' = createPending \ {[user |-> u, other |-> o]}
    /\ convRows' =
           IF ConvUniqueViolated(convRows, u, o)
           THEN convRows
           ELSE Append(convRows, [id |-> Len(convRows) + 1,
                                  participant_one |-> u,
                                  participant_two |-> o])
    /\ ConvFrame

\* one postgres_changes event handled by u's chatStore
ApplyEvent(u, e) ==
    LET c == e.new.conversation_id
    IN  IF e.type = "INSERT"
        THEN /\ messages' = [messages EXCEPT ![u][c] = OnInsert(@, e.new)]
             /\ unread' = FetchConversations(unread, dbMessages, u)
        ELSE /\ messages' = [messages EXCEPT ![u][c] = OnUpdate(@, e.new)]
             /\ UNCHANGED unread

\* the transport hands the events in flight to a client over in any order
Deliver(u, e) ==
    /\ e \in inbox[u]
    /\ ApplyEvent(u, e)
    /\ inbox' = [inbox EXCEPT ![u] = @ \ {e}]
    /\ lastOp' = NoOp
    /\ UNCHANGED <<dbMessages, dbProfiles, dbConvUpdated, typingRows, now,
                   connectionStatus, typingTimeouts, cache, dupLeft, editsLeft,
                   connectsLeft,
                   callVars, wsVars>>
    /\ UNCHANGED extVars
    /\ UNCHANGED auxVars

\* at-least-once delivery: an event is handed over and stays in flight
Redeliver(u, e) ==
    /\ e \in inbox[u]
    /\ dupLeft > 0
    /\ dupLeft' = dupLeft - 1
    /\ ApplyEvent(u, e)
    /\ lastOp' = NoOp
    /\ UNCHANGED <<dbMessages, dbProfiles, dbConvUpdated, typingRows, now,
                   connectionStatus, typingTimeouts, cache, inbox, editsLeft,
                   connectsLeft,
                   callVars, wsVars>>
    /\ UNCHANGED extVars
    /\ UNCHANGED auxVars

(* ------------------------------------------------------------------ *)
(* chatStore: startTyping, stopTyping, the typing channel               *)
(* ------------------------------------------------------------------ *)
TypingOp(kind, c, n, phase) == [op |-> kind, conv |-> c, n |-> n, phase |-> phase]

\* what the typing actions leave alone
TypingFrame ==
    UNCHANGED <<dbMessages, dbProfiles, dbConvUpdated, now, messages, unread,
                connectionStatus, cache, inbox, dupLeft, editsLeft,
                connectsLeft, lastOp, callVars, wsVars, wsTypingTimeouts,
                wsTypingLog, extraSession, convRows, createPending, auxVars>>

\* startTyping(conversationId), up to its upsert request (getUser and the
\* profile select are awaited first)
StartTyping(u, c) ==
    /\ u \in Participants(c)
    /\ typingSeq < MaxTypingReqs
    /\ typingSeq' = typingSeq + 1
    /\ typingOps' = [typingOps EXCEPT ![u] =
           @ \cup {TypingOp("start", c, typingSeq + 1, "request")}]
    /\ UNCHANGED <<typingRows, typingTimeouts, typingIndicators, typingInbox>>
    /\ TypingFrame

\* startTyping: storage runs the upsert
StartTypingUpsert(u, op, merge) ==
    /\ op \in typingOps[u]
    /\ op.op = "start" /\ op.phase = "request"
    /\ typingRows' = TypingUpsert(typingRows, op.conv, u, op.n, merge)
    /\ typingInbox' = TypingBroadcast(typingInbox, connectionStatus, u,
                                      TypingEvents(typingRows, typingRows'))
    /\ typingOps' = [typingOps EXCEPT ![u] =
           (@ \ {op}) \cup {[op EXCEPT !.phase = "reply"]}]
    /\ UNCHANGED <<typingTimeouts, typingIndicators, typingSeq>>
    /\ TypingFrame

\* startTyping, after the upsert: the key's timeout is cleared and a new
\* auto-stop timeout is set
StartTypingDone(u, op) ==
    /\ op \in typingOps[u]
    /\ op.op = "start" /\ op.phase = "reply"
    /\ typingTimeouts' = [typingTimeouts EXCEPT ![u] = @ \cup {op.conv}]
    /\ typingOps' = [typingOps EXCEPT ![u] = @ \ {op}]
    /\ UNCHANGED <<typingRows, typingIndicators, typingInbox, typingSeq>>
    /\ TypingFrame

\* stopTyping(conversationId), up to its delete request
StopTyping(u, c) ==
    /\ u \in Participants(c)
    /\ typingSeq < MaxTypingReqs
    /\ typingSeq' = typingSeq + 1
    /\ typingOps' = [typingOps EXCEPT ![u] =
           @ \cup {TypingOp("stop", c, typingSeq + 1, "request")}]
    /\ UNCHANGED <<typingRows, typingTimeouts, typingIndicators, typingInbox>>
    /\ TypingFrame

\* stopTyping: storage runs the delete
StopTypingDelete(u, op) ==
    /\ op \in typingOps[u]
    /\ op.op = "stop" /\ op.phase = "request"
    /\ typingRows' = TypingDelete(typingRows, op.conv, u)
    /\ typingInbox' = TypingBroadcast(typingInbox, connectionStatus, u,
                                      TypingEvents(typingRows, typingRows'))
    /\ typingOps' = [typingOps EXCEPT ![u] =
           (@ \ {op}) \cup {[op EXCEPT !.phase = "reply"]}]
    /\ UNCHANGED <<typingTimeouts, typingIndicators, typingSeq>>
    /\ TypingFrame

\* stopTyping, after the delete: the key's timeout is cleared and forgotten
StopTypingDone(u, op) ==
    /\ op \in typingOps[u]
    /\ op.op = "stop" /\ op.phase = "reply"
    /\ typingTimeouts' = [typingTimeouts EXCEPT ![u] = @ \ {op.conv}]
    /\ typingOps' = [typingOps EXCEPT ![u] = @ \ {op}]
    /\ UNCHANGED <<typingRows, typingIndicators, typingInbox, typingSeq>>
    /\ TypingFrame

\* the auto-stop timeout of startTyping runs: it calls stopTyping
TypingTimeoutFires(u, c) ==
    /\ c \in typingTimeouts[u]
    /\ typingTimeouts' = [typingTimeouts EXCEPT ![u] = @ \ {c}]
    /\ typingOps' = [typingOps EXCEPT ![u] =
           @ \cup {TypingOp("stop", c, 0, "request")}]
    /\ UNCHANGED <<typingRows, typingIndicators, typingInbox, typingSeq>>
    /\ TypingFrame

\* typing channel handlers of v's store: onInsert / onUpdate add the
\* indicator of another user, onDelete removes by payload.old, which holds
\* the row's columns (full) or its primary key only
TypingDeliver(v, e, full) ==
    /\ e \in typingInbox[v]
    /\ typingInbox' = [typingInbox EXCEPT ![v] = @ \ {e}]
    /\ typingIndicators' = [typingIndicators EXCEPT ![v] =
           IF e.type \in {"INSERT", "UPDATE"}
           THEN IF e.row.user_id # v
                THEN AddTypingIndicator(@, [conversationId |-> e.row.conversation_id,
                                            userId |-> e.row.user_id])
                ELSE @
           ELSE IF full
                THEN RemoveTypingIndicator(@, e.row.conversation_id, e.row.user_id)
                ELSE @]
    /\ UNCHANGED <<typingRows, typingTimeouts, typingOps, typingSeq>>
    /\ TypingFrame

(* ------------------------------------------------------------------ *)
(* MessageInput: handleInputChange, handleSubmit                        *)
(* ------------------------------------------------------------------ *)
InputFrame ==
    UNCHANGED <<dbMessages, dbProfiles, dbConvUpdated, now, messages, unread,
                connectionStatus, cache, inbox, dupLeft, editsLeft,
                connectsLeft, lastOp, callVars, wsVars, wsTypingTimeouts,
                wsTypingLog, extraSession, convRows, createPending,
                mediaVars, mcVars, wsConnVars>>

\* handleInputChange: setMessage(value); with text, startTyping is called
\* and the component's stop timer is set anew; with an empty value,
\* stopTyping is called and the timer cleared
HandleInputChange(u, c, value) ==
    /\ u \in Participants(c)
    /\ typingSeq < MaxTypingReqs
    /\ inputMessage' = [inputMessage EXCEPT ![u] = value]
    /\ typingSeq' = typingSeq + 1
    /\ typingOps' = [typingOps EXCEPT ![u] = @ \cup
           {TypingOp(IF value # "" THEN "start" ELSE "stop", c,
                     typingSeq + 1, "request")}]
    /\ typingTimeoutRef' = [typingTimeoutRef EXCEPT ![u] = (value # "")]
    /\ UNCHANGED <<typingRows, typingTimeouts, typingIndicators, typingInbox,
                   submitting>>
    /\ InputFrame

\* the component's stop timer runs: stopTyping is called
InputTimerFires(u, c) ==
    /\ typingTimeoutRef[u]
    /\ typingTimeoutRef' = [typingTimeoutRef EXCEPT ![u] = FALSE]
    /\ typingOps' = [typingOps EXCEPT ![u] =
           @ \cup {TypingOp("stop", c, 0, "request")}]
    /\ UNCHANGED <<typingRows, typingTimeouts, typingIndicators, typingInbox,
                   typingSeq, inputMessage, submitting>>
    /\ InputFrame

\* handleSubmit, up to its await: the input is emptied, stopTyping is called
\* (not awaited), the stop timer is cleared, sendMessage is called
HandleSubmit(u, c) ==
    /\ u \in Participants(c)
    /\ inputMessage[u] # ""
    /\ submitting[u] = ""
    /\ typingSeq < MaxTypingReqs
    /\ submitting' = [submitting EXCEPT ![u] = inputMessage[u]]
    /\ inputMessage' = [inputMessage EXCEPT ![u] = ""]
    /\ typingTimeoutRef' = [typingTimeoutRef EXCEPT ![u] = FALSE]
    /\ typingSeq' = typingSeq + 1
    /\ typingOps' = [typingOps EXCEPT ![u] =
           @ \cup {TypingOp("stop", c, typingSeq + 1, "request")}]
    /\ UNCHANGED <<typingRows, typingTimeouts, typingIndicators, typingInbox>>
    /\ InputFrame

\* handleSubmit, sendMessage and what follows it: the catch block puts the
\* text back when the promise of sendMessage rejects
HandleSubmitSend(u, c, ok) ==
    /\ submitting[u] # ""
    /\ SendMessageSteps(u, c, ok)
    /\ submitting' = [submitting EXCEPT ![u] = ""]
    /\ inputMessage' = [inputMessage EXCEPT ![u] =
           IF SendMessageRejects(ok) THEN submitting[u] ELSE @]
    /\ UNCHANGED <<typingTimeoutRef, mediaVars, mcVars, wsConnVars>>

(* ------------------------------------------------------------------ *)
(* MessageCacheManager                                                  *)
(* ------------------------------------------------------------------ *)
McIds == 1..MaxCacheIds

\* the messages handed to the manager: created_at does not follow the ids
\* and two messages share one created_at
McMessage(i) ==
    [id |-> i, created_at |-> IF i = 2 THEN 1 ELSE 2, status |-> "sent",
     content |-> "text"]

\* lists handed to setCachedMessages / prependMessages: pages of distinct
\* rows in any order
McLists ==
    {[k \in DOMAIN s |-> McMessage(s[k])] :
        s \in {q \in UNION {[1..n -> McIds] : n \in 0..MaxCacheList} :
                  \A i, j \in DOMAIN q : i # j => q[i] # q[j]}}

\* Partial<Message> values handed to updateMessage
McUpdates ==
    {[status |-> "delivered"], [status |-> "read"], [content |-> "edited"]}

\* Date.now(): not before any lastFetched already stored
McNow == {t \in 0..MaxCacheClock : \A c \in Convs : mcCache[c].lastFetched <= t}

\* variant of addMessage's check that never finds the message
McAlwaysNew(list, id) == FALSE

\* variant of the spread with the earlier fields winning
McEarlierWins(a, b) ==
    [f \in DOMAIN a \cup DOMAIN b |-> IF f \in DOMAIN a THEN a[f] ELSE b[f]]

\* existing.messages.some(m => m.id === message.id)
McMessageExists(list, id) == \E i \in DOMAIN list : list[i].id = id

\* { ...a, ...b }
McSpread(a, b) ==
    [f \in DOMAIN a \cup DOMAIN b |-> IF f \in DOMAIN b THEN b[f] ELSE a[f]]

\* list.filter(keep)
RECURSIVE McFilterOut(_, _)
McFilterOut(list, ids) ==
    IF list = <<>> THEN <<>>
    ELSE IF list[1].id \in ids THEN McFilterOut(Tail(list), ids)
    ELSE <<list[1]>> \o McFilterOut(Tail(list), ids)

McFrame ==
    UNCHANGED <<chatVars, callVars, wsVars, extVars, inputVars, mediaVars,
                wsConnVars>>

\* setCachedMessages(conversationId, messages, hasMore)
McSetCachedMessages(c, list, hasMore, t) ==
    /\ t \in McNow
    /\ mcCache' = [mcCache EXCEPT ![c] =
           [exists |-> TRUE, messages |-> SortByCreated(list),
            lastFetched |-> t, hasMore |-> hasMore]]
    /\ UNCHANGED <<mcPendingUpdates, mcBatchTimeout>>
    /\ McFrame

\* addMessage(conversationId, message)
McAddMessage(c, m, t) ==
    /\ t \in McNow
    /\ mcCache' = [mcCache EXCEPT ![c] =
           IF ~@.exists
           THEN [exists |-> TRUE, messages |-> <<m>>, lastFetched |-> t,
                 hasMore |-> TRUE]
           ELSE IF McMessageExists(@.messages, m.id) THEN @
           ELSE [@ EXCEPT !.messages = SortByCreated(Append(@, m)),
                          !.lastFetched = t]]
    /\ UNCHANGED <<mcPendingUpdates, mcBatchTimeout>>
    /\ McFrame

\* removeMessage(conversationId, messageId)
McRemoveMessage(c, id) ==
    /\ mcCache' = [mcCache EXCEPT ![c] =
           IF ~@.exists THEN @
           ELSE [@ EXCEPT !.messages = McFilterOut(@, {id})]]
    /\ UNCHANGED <<mcPendingUpdates, mcBatchTimeout>>
    /\ McFrame

\* prependMessages(conversationId, messages)
McPrependMessages(c, list, t) ==
    /\ t \in McNow
    /\ mcCache' = [mcCache EXCEPT ![c] =
           IF ~@.exists
           THEN [exists |-> TRUE, messages |-> SortByCreated(list),
                 lastFetched |-> t,
                 hasMore |-> (Len(list) = MESSAGES_PER_PAGE)]
           ELSE LET existingIds == {@.messages[i].id : i \in DOMAIN @.messages}
                    newMessages == McFilterOut(list, existingIds)
                IN  [@ EXCEPT !.messages = SortByCreated(newMessages \o @),
                              !.hasMore = (Len(list) = MESSAGES_PER_PAGE)]]
    /\ UNCHANGED <<mcPendingUpdates, mcBatchTimeout>>
    /\ McFrame

\* updateMessage(messageId, updates): merged into pendingUpdates, the batch
\* timer is cleared and set anew
McUpdateMessage(id, updates) ==
    /\ mcPendingUpdates' =
           [i \in DOMAIN mcPendingUpdates \cup {id} |->
               IF i = id
               THEN McSpread(IF id \in DOMAIN mcPendingUpdates
                             THEN mcPendingUpdates[id] ELSE <<>>, updates)
               ELSE mcPendingUpdates[i]]
    /\ mcBatchTimeout' = TRUE
    /\ UNCHANGED mcCache
    /\ McFrame

\* the batch timer's callback: pendingUpdates is copied and cleared, every
\* cached message with an entry is replaced by { ...message, ...updates }
McBatchTimerFires ==
    /\ mcBatchTimeout
    /\ mcBatchTimeout' = FALSE
    /\ mcPendingUpdates' = <<>>
    /\ mcCache' = [c \in Convs |->
           [mcCache[c] EXCEPT !.messages =
               [i \in DOMAIN @ |->
                   IF @[i].id \in DOMAIN mcPendingUpdates
                   THEN McSpread(@[i], mcPendingUpdates[@[i].id])
                   ELSE @[i]]]]
    /\ McFrame

(* ------------------------------------------------------------------ *)
(* Calls: call_sessions, the call edge functions, callStore             *)
(* ------------------------------------------------------------------ *)
CallUsers == {"u1", "u2"}

NoCall == [id |-> 0, caller_id |-> "none", recipient_id |-> "none",
           status |-> "none", answered_at |-> 0, ended_at |-> 0,
           duration |-> 0]

NoPending == [op |-> "none", id |-> 0, success |-> FALSE, call_session |-> NoCall]

Terminal == {"ended", "declined", "missed"}

IsTerminal(st) == st \in Terminal

\* variants of the store's checks with the check left out
InitiateAlwaysSucceeded(data) == TRUE

AnswerAlwaysSucceeded(data) == TRUE

\* variant of end-call that writes to a terminal session as well
EndAlwaysApplies(cs, id) == TRUE

\* initiateCall: if (error) throw error; if (!data.success) throw ...
InitiateSucceeded(data) == data.success

\* answerCall: if (error) throw error; if (!data.success) throw ...
AnswerSucceeded(data) == data.success

\* initiate-call: an active session of the unordered pair is a conflict
ActiveOfPair(cs, a, b) ==
    {i \in DOMAIN cs : /\ ~IsTerminal(cs[i].status)
                       /\ {cs[i].caller_id, cs[i].recipient_id} = {a, b}}

\* initiate-call: the session is created and advanced to ringing at once
NewSession(cs, caller, recipient) ==
    [id |-> Len(cs) + 1, caller_id |-> caller, recipient_id |-> recipient,
     status |-> "ringing", answered_at |-> 0, ended_at |-> 0,
     duration |-> 0]

\* answer-call: valid only from ringing, only by the recipient
AnswerValid(cs, id, u) ==
    /\ id \in DOMAIN cs
    /\ cs[id].status = "ringing"
    /\ cs[id].recipient_id = u

\* end-call: the status the session takes; a terminal session stays as it is,
\* a connected one is ended by either party, a ringing one is ended
\* (cancelled) by its caller and declined by its recipient
EndStatus(cs, id, u) ==
    LET st == cs[id].status
    IN  IF IsTerminal(st) THEN st
        ELSE IF st = "connected" THEN "ended"
        ELSE IF cs[id].caller_id = u THEN "ended"
        ELSE "declined"

\* end-call: a session already in a terminal status is left as it is
EndApplies(cs, id) == ~IsTerminal(cs[id].status)

\* end-call: the duration of a call that was answered, none (0) otherwise
EndDuration(row, endedAt) ==
    IF row.answered_at # 0 THEN endedAt - row.answered_at ELSE 0

\* postgres_changes fan-out of a call_sessions row: caller and recipient
CallBroadcast(ib, type, row) ==
    [u \in Users |->
        IF u \in {row.caller_id, row.recipient_id}
        THEN ib[u] \cup {[type |-> type, new |-> row]} ELSE ib[u]]

InitCallState ==
    /\ callSessions = <<>>
    /\ currentCall = [u \in Users |-> NoCall]
    /\ incomingCall = [u \in Users |-> NoCall]
    /\ isCallActive = [u \in Users |-> FALSE]
    /\ pendingOp = [u \in Users |-> NoPending]
    /\ handling = [u \in Users |-> {}]
    /\ callInbox = [u \in Users |-> {}]

\* variant of cleanupWebRTC that leaves remoteStream as it is
CleanupKeepsRemoteStream(u) ==
    /\ localStream' = [localStream EXCEPT ![u] = FALSE]
    /\ peerConnection' = [peerConnection EXCEPT ![u] = FALSE]
    /\ UNCHANGED remoteStream

\* setupWebRTC: with media (getUserMedia resolves) the stream and a new peer
\* connection are stored; without, the error is caught and nothing is set
SetupWebRTC(u, media) ==
    /\ localStream' = [localStream EXCEPT ![u] = (media \/ @)]
    /\ peerConnection' = [peerConnection EXCEPT ![u] = (media \/ @)]
    /\ mediaOpened' = [mediaOpened EXCEPT ![u] = (media \/ @)]

\* cleanupWebRTC: tracks stopped, connection closed, all three set to null
CleanupWebRTC(u) ==
    /\ localStream' = [localStream EXCEPT ![u] = FALSE]
    /\ remoteStream' = [remoteStream EXCEPT ![u] = FALSE]
    /\ peerConnection' = [peerConnection EXCEPT ![u] = FALSE]

\* initiateCall, up to the edge function's reply: initiate-call runs
InitiateCallInvoke(u, r, limit) ==
    /\ u # r
    /\ pendingOp[u] = NoPending
    /\ IF ActiveOfPair(callSessions, u, r) # {}
       THEN /\ pendingOp' = [pendingOp EXCEPT ![u] =
                   [op |-> "initiate", id |-> 0, success |-> FALSE,
                    call_session |-> NoCall]]
            /\ UNCHANGED <<callSessions, callInbox>>
       ELSE /\ Len(callSessions) < limit
            /\ LET row == NewSession(callSessions, u, r)
               IN  /\ callSessions' = Append(callSessions, row)
                   /\ callInbox' = CallBroadcast(callInbox, "INSERT", row)
                   /\ pendingOp' = [pendingOp EXCEPT ![u] =
                          [op |-> "initiate", id |-> row.id, success |-> TRUE,
                           call_session |-> row]]
    /\ UNCHANGED <<currentCall, incomingCall, isCallActive, handling, chatVars, wsVars>>
    /\ UNCHANGED extVars
    /\ UNCHANGED auxVars

\* initiateCall, from the reply on: currentCall and isCallActive on success,
\* a toast otherwise
InitiateCallDone(u, media) ==
    /\ pendingOp[u].op = "initiate"
    /\ pendingOp' = [pendingOp EXCEPT ![u] = NoPending]
    /\ IF InitiateSucceeded(pendingOp[u])
       THEN /\ SetupWebRTC(u, media)
            /\ currentCall' = [currentCall EXCEPT ![u] = pendingOp[u].call_session]
            /\ isCallActive' = [isCallActive EXCEPT ![u] = TRUE]
       ELSE UNCHANGED <<currentCall, isCallActive, localStream, peerConnection,
                        mediaOpened>>
    /\ UNCHANGED <<callSessions, incomingCall, handling, callInbox, chatVars, wsVars>>
    /\ UNCHANGED extVars
    /\ UNCHANGED <<isMuted, remoteStream, inputVars, mcVars, wsConnVars>>

\* answerCall, up to the edge function's reply: answer-call runs
AnswerCallInvoke(u, id) ==
    /\ id \in DOMAIN callSessions
    /\ pendingOp[u] = NoPending
    /\ IF AnswerValid(callSessions, id, u)
       THEN LET row == [callSessions[id] EXCEPT !.status = "connected",
                                                !.answered_at = now + 1]
            IN  /\ callSessions' = [callSessions EXCEPT ![id] = row]
                /\ now' = now + 1
                /\ callInbox' = CallBroadcast(callInbox, "UPDATE", row)
                /\ pendingOp' = [pendingOp EXCEPT ![u] =
                       [op |-> "answer", id |-> id, success |-> TRUE,
                        call_session |-> row]]
       ELSE /\ pendingOp' = [pendingOp EXCEPT ![u] =
                   [op |-> "answer", id |-> id, success |-> FALSE,
                    call_session |-> NoCall]]
            /\ UNCHANGED <<callSessions, callInbox, now>>
    /\ UNCHANGED <<currentCall, incomingCall, isCallActive, handling>>
    /\ UNCHANGED <<dbMessages, dbProfiles, dbConvUpdated, typingRows, messages,
                   unread, connectionStatus, typingTimeouts, cache, inbox,
                   dupLeft, editsLeft, connectsLeft, lastOp, wsVars>>
    /\ UNCHANGED extVars
    /\ UNCHANGED auxVars

\* answerCall, from the reply on: on success the incoming call, if it is
\* still this call, becomes the current call with status connected
AnswerCallDone(u, media) ==
    /\ pendingOp[u].op = "answer"
    /\ pendingOp' = [pendingOp EXCEPT ![u] = NoPending]
    /\ IF AnswerSucceeded(pendingOp[u])
       THEN SetupWebRTC(u, media)
       ELSE UNCHANGED <<localStream, peerConnection, mediaOpened>>
    /\ IF AnswerSucceeded(pendingOp[u]) /\ incomingCall[u].id = pendingOp[u].id
       THEN /\ currentCall' = [currentCall EXCEPT ![u] =
                   [incomingCall[u] EXCEPT !.status = "connected"]]
            /\ incomingCall' = [incomingCall EXCEPT ![u] = NoCall]
            /\ isCallActive' = [isCallActive EXCEPT ![u] = TRUE]
       ELSE UNCHANGED <<currentCall, incomingCall, isCallActive>>
    /\ UNCHANGED <<callSessions, handling, callInbox, chatVars, wsVars>>
    /\ UNCHANGED extVars
    /\ UNCHANGED <<isMuted, remoteStream, inputVars, mcVars, wsConnVars>>

\* endCall, up to the edge function's reply: end-call runs
EndCallInvoke(u, id) ==
    /\ id \in DOMAIN callSessions
    /\ pendingOp[u] = NoPending
    /\ pendingOp' = [pendingOp EXCEPT ![u] =
           [op |-> "end", id |-> id, success |-> TRUE, call_session |-> NoCall]]
    /\ IF ~EndApplies(callSessions, id)
       THEN UNCHANGED <<callSessions, callInbox, now>>
       ELSE LET row == [callSessions[id] EXCEPT
                           !.status = EndStatus(callSessions, id, u),
                           !.ended_at = now + 1,
                           !.duration = EndDuration(callSessions[id], now + 1)]
            IN  /\ callSessions' = [callSessions EXCEPT ![id] = row]
                /\ now' = now + 1
                /\ callInbox' = CallBroadcast(callInbox, "UPDATE", row)
    /\ UNCHANGED <<currentCall, incomingCall, isCallActive, handling>>
    /\ UNCHANGED <<dbMessages, dbProfiles, dbConvUpdated, typingRows, messages,
                   unread, connectionStatus, typingTimeouts, cache, inbox,
                   dupLeft, editsLeft, connectsLeft, lastOp, wsVars>>
    /\ UNCHANGED extVars
    /\ UNCHANGED auxVars

\* endCall, from the reply on: the call state is cleared on success and on
\* error alike
EndCallDone(u) ==
    /\ pendingOp[u].op = "end"
    /\ pendingOp' = [pendingOp EXCEPT ![u] = NoPending]
    /\ currentCall' = [currentCall EXCEPT ![u] = NoCall]
    /\ incomingCall' = [incomingCall EXCEPT ![u] = NoCall]
    /\ isCallActive' = [isCallActive EXCEPT ![u] = FALSE]
    /\ CleanupWebRTC(u)
    /\ isMuted' = [isMuted EXCEPT ![u] = FALSE]
    /\ UNCHANGED <<callSessions, handling, callInbox, chatVars, wsVars>>
    /\ UNCHANGED extVars
    /\ UNCHANGED <<mediaOpened, inputVars, mcVars, wsConnVars>>

\* the handler's select of the full row by the payload's id
FetchFullCall(cs, h) == cs[h.id]

\* call_sessions handler, first part: the payload's id is taken and
\* currentCall / incomingCall are read from the store, then the row is asked for
CallEventStart(u, e, limit) ==
    /\ e \in callInbox[u]
    /\ Cardinality(handling[u]) < limit
    /\ callInbox' = [callInbox EXCEPT ![u] = @ \ {e}]
    /\ handling' = [handling EXCEPT ![u] = @ \cup
           {[id |-> e.new.id, cur |-> currentCall[u].id,
             inc |-> incomingCall[u].id, fullCall |-> NoCall]}]
    /\ UNCHANGED <<callSessions, currentCall, incomingCall, isCallActive,
                   pendingOp, chatVars, wsVars>>
    /\ UNCHANGED extVars
    /\ UNCHANGED auxVars

\* call_sessions handler: storage answers the select
CallEventFetch(u, h) ==
    /\ h \in handling[u]
    /\ h.fullCall = NoCall
    /\ handling' = [handling EXCEPT ![u] =
           (@ \ {h}) \cup {[h EXCEPT !.fullCall = FetchFullCall(callSessions, h)]}]
    /\ UNCHANGED <<callSessions, currentCall, incomingCall, isCallActive,
                   pendingOp, callInbox, chatVars, wsVars>>
    /\ UNCHANGED extVars
    /\ UNCHANGED auxVars

\* call_sessions handler, after the await: incoming call, current call,
\* cleanup on a terminal status, against the values read before the await
CallEventApply(u, h) ==
    /\ h \in handling[u]
    /\ h.fullCall # NoCall
    /\ handling' = [handling EXCEPT ![u] = @ \ {h}]
    /\ LET f == h.fullCall
           term == IsTerminal(f.status)
           match == h.cur # 0 /\ h.cur = f.id
           inc1 == IF f.recipient_id = u /\ f.status = "ringing" /\ h.cur = 0
                   THEN f ELSE incomingCall[u]
           inc2 == IF match /\ term THEN NoCall ELSE inc1
           inc3 == IF h.inc # 0 /\ h.inc = f.id /\ term THEN NoCall ELSE inc2
       IN  /\ incomingCall' = [incomingCall EXCEPT ![u] = inc3]
           /\ currentCall' = [currentCall EXCEPT ![u] =
                  IF match THEN (IF term THEN NoCall ELSE f) ELSE @]
           /\ isCallActive' = [isCallActive EXCEPT ![u] =
                  IF match /\ term THEN FALSE ELSE @]
           /\ IF match /\ term
              THEN /\ CleanupWebRTC(u)
                   /\ isMuted' = [isMuted EXCEPT ![u] = FALSE]
              ELSE UNCHANGED <<localStream, remoteStream, peerConnection,
                               isMuted>>
    /\ UNCHANGED <<callSessions, pendingOp, callInbox, chatVars, wsVars>>
    /\ UNCHANGED extVars
    /\ UNCHANGED <<mediaOpened, inputVars, mcVars, wsConnVars>>

\* end-call cannot be reached (network or function error): invoke yields an
\* error, nothing is written, endCall goes on in its catch block
EndCallInvokeFails(u, id) ==
    /\ id \in DOMAIN callSessions
    /\ pendingOp[u] = NoPending
    /\ pendingOp' = [pendingOp EXCEPT ![u] =
           [op |-> "end", id |-> id, success |-> FALSE, call_session |-> NoCall]]
    /\ UNCHANGED <<callSessions, currentCall, incomingCall, isCallActive,
                   handling, callInbox, chatVars, wsVars>>
    /\ UNCHANGED extVars
    /\ UNCHANGED auxVars

\* toggleMute: with a local stream, its tracks are switched and isMuted flips
ToggleMute(u) ==
    /\ localStream[u]
    /\ isMuted' = [isMuted EXCEPT ![u] = ~@]
    /\ UNCHANGED <<localStream, remoteStream, peerConnection, mediaOpened>>
    /\ UNCHANGED <<chatVars, callVars, wsVars, extVars, inputVars, mcVars,
                   wsConnVars>>

\* peerConnection.ontrack: the remote stream is stored
OnTrack(u) ==
    /\ peerConnection[u]
    /\ ~remoteStream[u]
    /\ remoteStream' = [remoteStream EXCEPT ![u] = TRUE]
    /\ UNCHANGED <<isMuted, localStream, peerConnection, mediaOpened>>
    /\ UNCHANGED <<chatVars, callVars, wsVars, extVars, inputVars, mcVars,
                   wsConnVars>>

(* ------------------------------------------------------------------ *)
(* WebSocketManager                                                     *)
(* ------------------------------------------------------------------ *)
WsCallEvents == {"initiate-call", "answer-call", "reject-call", "end-call"}

\* processMessageQueue's batchSize
WsBatchSize == 10

\* private maxReconnectAttempts
maxReconnectAttempts == 5

\* simulateServerResponse: the status an answer / reject / end event reports
WsStatusOf(event) == IF event = "answer-call" THEN "connected" ELSE "ended"

\* simulateServerResponse: duration of an ended call, undefined (0) for an
\* answer-call and when the event carries no startTime
WsDuration(event, startTime, dateNow) ==
    IF event # "answer-call" /\ startTime # 0 THEN dateNow - startTime ELSE 0

\* an answer-call and an end-call of one call
WsRivals(a, b) ==
    /\ a.callId = b.callId
    /\ {a.event, b.event} = {"answer-call", "end-call"}

WsSeqSet(q) == {q[i] : i \in DOMAIN q}

WsInFlight == WsSeqSet(wsMessageQueue) \cup wsEmitTimers \cup wsResponseTimers

\* observer: an emit is marked as racing when a rival emit is in flight
WsMarkRace(set, m) ==
    {IF WsRivals(x, m) THEN [x EXCEPT !.race = TRUE] ELSE x : x \in set}

InitWsState ==
    /\ wsIsConnected = FALSE
    /\ wsMessageQueue = <<>>
    /\ wsEmitTimers = {}
    /\ wsResponseTimers = {}
    /\ wsOnCall = FALSE
    /\ wsNextCall = 0
    /\ wsEmits = 0
    /\ wsCallLog = <<>>

\* emit(event, data): queued while disconnected, otherwise handed to
\* simulateServerResponse after the network delay
WsEmit(event, callId, startTime) ==
    LET m0 == [event |-> event, callId |-> callId, n |-> wsEmits + 1,
               startTime |-> startTime, race |-> FALSE,
               queued |-> ~wsIsConnected]
        m == [m0 EXCEPT !.race = \E x \in WsInFlight : WsRivals(x, m0)]
    IN  /\ wsEmits < MaxEmits
        /\ wsEmits' = wsEmits + 1
        /\ wsResponseTimers' = WsMarkRace(wsResponseTimers, m)
        /\ IF ~wsIsConnected
           THEN /\ wsMessageQueue' =
                      Append([i \in DOMAIN wsMessageQueue |->
                                 IF WsRivals(wsMessageQueue[i], m)
                                 THEN [wsMessageQueue[i] EXCEPT !.race = TRUE]
                                 ELSE wsMessageQueue[i]], m)
                /\ wsEmitTimers' = WsMarkRace(wsEmitTimers, m)
           ELSE /\ wsEmitTimers' = WsMarkRace(wsEmitTimers, m) \cup {m}
                /\ wsMessageQueue' =
                      [i \in DOMAIN wsMessageQueue |->
                          IF WsRivals(wsMessageQueue[i], m)
                          THEN [wsMessageQueue[i] EXCEPT !.race = TRUE]
                          ELSE wsMessageQueue[i]]

\* onCall(onReceived, onStatusUpdate)
WsOnCallSet ==
    /\ ~wsOnCall
    /\ wsOnCall' = TRUE
    /\ UNCHANGED <<wsIsConnected, wsMessageQueue, wsEmitTimers,
                   wsResponseTimers, wsNextCall, wsEmits, wsCallLog,
                   chatVars, callVars>>
    /\ UNCHANGED extVars
    /\ UNCHANGED auxVars

\* connect -> simulateWebSocketConnection: connected, then
\* processMessageQueue re-emits up to batchSize queued messages
WsConnect ==
    /\ ~wsIsConnected
    /\ wsIsConnected' = TRUE
    /\ LET k == IF Len(wsMessageQueue) < WsBatchSize
                THEN Len(wsMessageQueue) ELSE WsBatchSize
       IN  /\ wsEmitTimers' = wsEmitTimers \cup
                                 {wsMessageQueue[i] : i \in 1..k}
           /\ wsMessageQueue' = SubSeq(wsMessageQueue, k + 1, Len(wsMessageQueue))
    /\ wsUserId' = TRUE
    /\ wsReconnectAttempts' = 0
    /\ wsCheckIntervals' = TRUE
    /\ UNCHANGED <<wsResponseTimers, wsOnCall, wsNextCall, wsEmits, wsCallLog,
                   chatVars, callVars>>
    /\ UNCHANGED extVars
    /\ UNCHANGED <<wsReconnectTimers, inputVars, mediaVars, mcVars>>

\* disconnect(), callable in any state: the typing timeouts are cleared, the
\* queue is dropped and the callbacks are cleared; emit timers already set
\* stay set (the callback of its own emit('user-disconnect') does nothing),
\* and so do reconnectAttempts and the connection-check interval
WsDisconnect ==
    /\ wsIsConnected' = FALSE
    /\ wsMessageQueue' = <<>>
    /\ wsOnCall' = FALSE
    /\ wsTypingTimeouts' = {}
    /\ UNCHANGED <<wsEmitTimers, wsResponseTimers, wsNextCall, wsEmits,
                   wsCallLog, chatVars, callVars>>
    /\ UNCHANGED <<wsTypingLog, typingVars, extraSession, convRows,
                   createPending>>
    /\ wsUserId' = FALSE
    /\ UNCHANGED <<wsReconnectAttempts, wsCheckIntervals, wsReconnectTimers,
                   inputVars, mediaVars, mcVars>>

\* initiateCall(...): a fresh callId, emit('initiate-call')
WsInitiateCall ==
    /\ wsNextCall < MaxWsCalls
    /\ wsNextCall' = wsNextCall + 1
    /\ WsEmit("initiate-call", wsNextCall + 1, 0)
    /\ UNCHANGED <<wsIsConnected, wsOnCall, wsCallLog, chatVars, callVars>>
    /\ UNCHANGED extVars
    /\ UNCHANGED auxVars

\* answerCall / rejectCall / endCall(callId, ...): emit of the event; only
\* endCall has a startTime parameter, which may be left out (0)
WsCallAction(event, callId, startTime) ==
    /\ event \in WsCallEvents \ {"initiate-call"}
    /\ callId \in 1..wsNextCall
    /\ event # "end-call" => startTime = 0
    /\ WsEmit(event, callId, startTime)
    /\ UNCHANGED <<wsIsConnected, wsOnCall, wsNextCall, wsCallLog, chatVars,
                   callVars>>
    /\ UNCHANGED extVars
    /\ UNCHANGED auxVars

\* emit's setTimeout callback: simulateServerResponse sets the response timer
WsEmitTimerFires(m) ==
    /\ m \in wsEmitTimers
    /\ wsEmitTimers' = wsEmitTimers \ {m}
    /\ wsResponseTimers' = wsResponseTimers \cup {m}
    /\ UNCHANGED <<wsIsConnected, wsMessageQueue, wsOnCall, wsNextCall,
                   wsEmits, wsCallLog, chatVars, callVars>>
    /\ UNCHANGED extVars
    /\ UNCHANGED auxVars

\* simulateServerResponse's setTimeout callback: onCallReceived with status
\* ringing, or onCallStatusUpdate with connected / ended, when the callback
\* is set
WsResponseTimerFires(m) ==
    /\ m \in wsResponseTimers
    /\ wsResponseTimers' = wsResponseTimers \ {m}
    /\ now' = now + 1
    /\ wsCallLog' =
          IF wsOnCall
          THEN Append(wsCallLog,
                      [id |-> m.callId, race |-> m.race, event |-> m.event,
                       n |-> m.n, queued |-> m.queued, at |-> now + 1,
                       status |-> IF m.event = "initiate-call" THEN "ringing"
                                  ELSE WsStatusOf(m.event),
                       startTime |-> IF m.event = "initiate-call"
                                     THEN now + 1 ELSE m.startTime,
                       endTime |-> IF m.event \in {"reject-call", "end-call"}
                                   THEN now + 1 ELSE 0,
                       duration |-> WsDuration(m.event, m.startTime, now + 1)])
          ELSE wsCallLog
    /\ UNCHANGED <<wsIsConnected, wsMessageQueue, wsEmitTimers, wsOnCall,
                   wsNextCall, wsEmits, callVars>>
    /\ UNCHANGED <<dbMessages, dbProfiles, dbConvUpdated, typingRows, messages,
                   unread, connectionStatus, typingTimeouts, cache, inbox,
                   dupLeft, editsLeft, connectsLeft, lastOp>>
    /\ UNCHANGED extVars
    /\ UNCHANGED auxVars

InitWs ==
    /\ InitChatState
    /\ InitCallState
    /\ InitWsState
    /\ InitExtState
    /\ InitAuxState
    /\ dupLeft = 0
    /\ editsLeft = 0
    /\ connectsLeft = 0

NextWs ==
    \/ WsOnCallSet
    \/ WsConnect
    \/ WsDisconnect
    \/ WsInitiateCall
    \/ \E ev \in WsCallEvents, id \in 1..MaxWsCalls, st \in 0..now :
           WsCallAction(ev, id, st)
    \/ \E m \in wsEmitTimers : WsEmitTimerFires(m)
    \/ \E m \in wsResponseTimers : WsResponseTimerFires(m)

SpecWs == InitWs /\ [][NextWs]_vars

(* ------------------------------------------------------------------ *)
(* WebSocketManager: sendTypingIndicator                                *)
(* ------------------------------------------------------------------ *)
WsTypingFrame ==
    UNCHANGED <<chatVars, callVars, wsVars, typingVars, extraSession,
                convRows, createPending, auxVars>>

\* sendTypingIndicator(conversationId, isTyping) of a manager with a userId
\* (a connected one). Typing: the key's timeout is cleared, typing-start is
\* emitted, a timeout to stop is set. Not typing: the key's timeout is
\* cleared and typing-stop is emitted. simulateServerResponse only logs
\* typing events, so the emit is what the other side is sent
WsSendTypingIndicator(c, isTyping) ==
    /\ wsIsConnected
    /\ Len(wsTypingLog) < MaxTypingEmits
    /\ IF isTyping
       THEN /\ wsTypingLog' = Append(wsTypingLog,
                                     [event |-> "typing-start", conv |-> c])
            /\ wsTypingTimeouts' = wsTypingTimeouts \cup {c}
       ELSE /\ wsTypingLog' = Append(wsTypingLog,
                                     [event |-> "typing-stop", conv |-> c])
            /\ wsTypingTimeouts' = wsTypingTimeouts \ {c}
    /\ WsTypingFrame

\* the timeout set by sendTypingIndicator runs: typing-stop is emitted and
\* the key is forgotten
WsTypingTimeoutFires(c) ==
    /\ c \in wsTypingTimeouts
    /\ wsTypingLog' = Append(wsTypingLog, [event |-> "typing-stop", conv |-> c])
    /\ wsTypingTimeouts' = wsTypingTimeouts \ {c}
    /\ WsTypingFrame

NextWsTyping ==
    \/ WsConnect
    \/ WsDisconnect
    \/ \E c \in Convs, isTyping \in BOOLEAN : WsSendTypingIndicator(c, isTyping)
    \/ \E c \in Convs : WsTypingTimeoutFires(c)

SpecWsTyping == InitWs /\ [][NextWsTyping]_vars

(* ------------------------------------------------------------------ *)
(* WebSocketManager: connection checks and reconnects                   *)
(* ------------------------------------------------------------------ *)
WsConnFrame ==
    UNCHANGED <<chatVars, callVars, extVars, inputVars, mediaVars, mcVars,
                wsResponseTimers, wsOnCall, wsNextCall, wsEmits, wsCallLog>>

\* the callback of the connection-check interval set by
\* simulateWebSocketConnection; the interval is never cleared. A callback
\* that finds the manager connected, or the attempts used up, does nothing
WsConnectionCheck ==
    /\ wsCheckIntervals
    /\ ~wsIsConnected /\ wsReconnectAttempts < maxReconnectAttempts
    /\ wsReconnectTimers < MaxReconnectTimers
    /\ wsReconnectAttempts' = wsReconnectAttempts + 1
    /\ wsReconnectTimers' = wsReconnectTimers + 1
    /\ UNCHANGED <<wsIsConnected, wsMessageQueue, wsEmitTimers, wsUserId,
                   wsCheckIntervals>>
    /\ WsConnFrame

\* the timeout set by attemptReconnect runs: with a userId the manager is
\* connected and the queue is processed, without one nothing happens
WsReconnectTimerFires ==
    /\ wsReconnectTimers > 0
    /\ wsReconnectTimers' = wsReconnectTimers - 1
    /\ IF wsUserId
       THEN /\ wsIsConnected' = TRUE
            /\ LET k == IF Len(wsMessageQueue) < WsBatchSize
                        THEN Len(wsMessageQueue) ELSE WsBatchSize
               IN  /\ wsEmitTimers' = wsEmitTimers \cup
                                         {wsMessageQueue[i] : i \in 1..k}
                   /\ wsMessageQueue' =
                          SubSeq(wsMessageQueue, k + 1, Len(wsMessageQueue))
       ELSE UNCHANGED <<wsIsConnected, wsMessageQueue, wsEmitTimers>>
    /\ UNCHANGED <<wsUserId, wsReconnectAttempts, wsCheckIntervals>>
    /\ WsConnFrame

\* getConnectionStatus()
getConnectionStatus ==
    IF ~wsIsConnected
    THEN IF wsReconnectAttempts > 0 THEN "reconnecting" ELSE "disconnected"
    ELSE "connected"

NextWsConn ==
    \/ WsConnect
    \/ WsDisconnect
    \/ \E c \in Convs, isTyping \in BOOLEAN : WsSendTypingIndicator(c, isTyping)
    \/ \E c \in Convs : WsTypingTimeoutFires(c)
    \/ WsConnectionCheck
    \/ WsReconnectTimerFires

SpecWsConn == InitWs /\ [][NextWsConn]_vars

(* ------------------------------------------------------------------ *)
(* Specifications of the call store                                     *)
(* ------------------------------------------------------------------ *)
InitCall ==
    /\ InitChatState
    /\ InitCallState
    /\ InitWsState
    /\ InitExtState
    /\ InitAuxState
    /\ dupLeft = 0
    /\ editsLeft = 0
    /\ connectsLeft = 0

\* SpecCallOps: the store actions of both users against the edge functions,
\* sessions one after another; the events stay in flight
NextCallOps ==
    \/ \E u, r \in CallUsers : InitiateCallInvoke(u, r, MaxCalls)
    \/ \E u \in CallUsers, media \in BOOLEAN : InitiateCallDone(u, media)
    \/ \E u \in CallUsers, id \in 1..MaxCalls : AnswerCallInvoke(u, id)
    \/ \E u \in CallUsers, media \in BOOLEAN : AnswerCallDone(u, media)
    \/ \E u \in CallUsers, id \in 1..MaxCalls : EndCallInvoke(u, id)
    \/ \E u \in CallUsers : EndCallDone(u)

SpecCallOps == InitCall /\ [][NextCallOps]_vars

\* SpecCall: u1 calls u2; either may answer or end; each client's
\* subscription handler runs, up to MaxHandlers invocations overlapping;
\* the microphone is available
NextCall ==
    \/ InitiateCallInvoke("u1", "u2", MaxRing)
    \/ InitiateCallDone("u1", TRUE)
    \/ \E u \in CallUsers : AnswerCallInvoke(u, 1)
    \/ \E u \in CallUsers : AnswerCallDone(u, TRUE)
    \/ \E u \in CallUsers : EndCallInvoke(u, 1)
    \/ \E u \in CallUsers : EndCallDone(u)
    \/ \E u \in CallUsers : \E e \in callInbox[u] : CallEventStart(u, e, MaxHandlers)
    \/ \E u \in CallUsers : \E h \in handling[u] : CallEventFetch(u, h)
    \/ \E u \in CallUsers : \E h \in handling[u] : CallEventApply(u, h)

SpecCall == InitCall /\ [][NextCall]_vars

(* ------------------------------------------------------------------ *)
(* Specifications of the chat store                                     *)
(* ------------------------------------------------------------------ *)
\* SpecChat: both conversations, read receipts and presence
InitChat ==
    /\ InitChatState
    /\ InitCallState
    /\ InitWsState
    /\ InitExtState
    /\ InitAuxState
    /\ dupLeft = 0
    /\ editsLeft = 0
    /\ connectsLeft = MaxConnects

NextChat ==
    \/ \E u \in Clients, c \in Convs : SetActiveConversation(u, c)
    \/ \E u \in Users, c \in Convs, ok \in BOOLEAN : SendMessage(u, c, ok)
    \/ \E u \in Clients : SubscribeToRealtime(u)
    \/ \E u \in Clients : UnsubscribeFromRealtime(u)
    \/ \E u \in Clients : \E e \in inbox[u] : Deliver(u, e)

SpecChat == InitChat /\ [][NextChat]_vars

\* SpecChatEdit: conversation c1 as its sender u1 sees it, while u1 edits
\* and u2 reads
InitChatEdit ==
    /\ InitChatState
    /\ InitCallState
    /\ InitWsState
    /\ InitExtState
    /\ InitAuxState
    /\ dupLeft = 0
    /\ editsLeft = MaxEdits
    /\ connectsLeft = MaxConnects

NextChatEdit ==
    \/ SetActiveConversation("u2", "c1")
    \/ \E ok \in BOOLEAN : SendMessage("u1", "c1", ok)
    \/ \E id \in 1..MaxMsgs : EditMessage("u1", id)
    \/ SubscribeToRealtime("u1")
    \/ \E e \in inbox["u1"] : Deliver("u1", e)

SpecChatEdit == InitChatEdit /\ [][NextChatEdit]_vars

\* SpecOpen: conversation c1 as its recipient u2 opens it (fetch, cache)
\* under at-least-once delivery
InitOpen ==
    /\ InitChatState
    /\ InitCallState
    /\ InitWsState
    /\ InitExtState
    /\ InitAuxState
    /\ dupLeft = MaxDup
    /\ editsLeft = 0
    /\ connectsLeft = MaxConnects

NextOpen ==
    \/ SetActiveConversation("u2", "c1")
    \/ FetchMessages("u2", "c1")
    \/ ExpireCache("u2", "c1")
    \/ \E ok \in BOOLEAN : SendMessage("u1", "c1", ok)
    \/ SubscribeToRealtime("u2")
    \/ UnsubscribeFromRealtime("u2")
    \/ \E e \in inbox["u2"] : Deliver("u2", e)
    \/ \E e \in inbox["u2"] : Redeliver("u2", e)

SpecOpen == InitOpen /\ [][NextOpen]_vars

\* SpecRead: read receipts as storage and the event fan-out see them: every
\* sender, both readers opening either conversation, clients coming online;
\* the events stay in flight
InitRead ==
    /\ InitChatState
    /\ InitCallState
    /\ InitWsState
    /\ InitExtState
    /\ InitAuxState
    /\ dupLeft = 0
    /\ editsLeft = 0
    /\ connectsLeft = MaxConnects

NextRead ==
    \/ \E u \in Clients, c \in Convs : SetActiveConversation(u, c)
    \/ \E u \in Users, c \in Convs, ok \in BOOLEAN : SendMessage(u, c, ok)
    \/ \E u \in Clients : SubscribeToRealtime(u)

SpecRead == InitRead /\ [][NextRead]_vars

(* ------------------------------------------------------------------ *)
(* Properties of the chat store                                         *)
(* ------------------------------------------------------------------ *)
Sorted(list) ==
    \A i, j \in DOMAIN list : i < j => list[i].created_at <= list[j].created_at

IsMarkStep(u, c) ==
    lastOp'.op = "markAsRead" /\ lastOp'.user = u /\ lastOp'.conv = c

\* the other participant of a conversation
Peer(c, u) == CHOOSE p \in Participants(c) : p # u

\* C1: a message's status only moves forward along sent -> delivered -> read,
\* in storage and as every client's message list shows it, whatever the
\* arrival order of the update events
C1_StatusOnlyForward ==
    [][ /\ \A i \in DOMAIN dbMessages :
              Rank(dbMessages'[i].status) >= Rank(dbMessages[i].status)
        /\ \A u \in Clients, c \in Convs :
              \A i \in DOMAIN messages[u][c] :
                 (/\ i \in DOMAIN messages'[u][c]
                  /\ messages'[u][c][i].id = messages[u][c][i].id)
                 => Rank(messages'[u][c][i].status)
                       >= Rank(messages[u][c][i].status) ]_vars

\* C2: once the insert events in flight have been applied, the message list
\* of a connected participant is in non-decreasing creation order
C2_ListInCreationOrder ==
    \A u \in Clients, c \in Convs :
        (connectionStatus[u] = "connected" /\ inbox[u] = {})
        => Sorted(messages[u][c])

C6_EachIdAtMostOnce ==
    \A u \in Clients, c \in Convs :
        \A i, j \in DOMAIN messages[u][c] :
            i # j => messages[u][c][i].id # messages[u][c][j].id

(* ------------------------------------------------------------------ *)
(* Properties of the call store                                         *)
(* ------------------------------------------------------------------ *)
\* the call state machine: initiating -> ringing -> connected -> ended,
\* ringing -> declined, ringing -> missed, any active status -> ended
CallStep(a, b) ==
    \/ a = "initiating" /\ b \in {"ringing", "ended"}
    \/ a = "ringing" /\ b \in {"connected", "declined", "missed", "ended"}
    \/ a = "connected" /\ b = "ended"

\* b is a or comes after a in the state machine
CallForward(a, b) ==
    \/ a = b
    \/ CallStep(a, b)
    \/ \E m \in {"ringing", "connected"} : CallStep(a, m) /\ CallStep(m, b)

\* the status of session id as client u holds it, "none" when it holds none
Held(cur, inc, u, id) ==
    IF cur[u].id = id THEN cur[u].status
    ELSE IF inc[u].id = id THEN inc[u].status
    ELSE "none"

\* C7: the status of a call session only moves forward along the state
\* machine and never leaves a terminal status, as stored in call_sessions and
\* as held in each client's currentCall / incomingCall
C7_CallStatusMonotonic ==
    [][ /\ \A id \in DOMAIN callSessions :
              CallForward(callSessions[id].status, callSessions'[id].status)
        /\ \A u \in CallUsers, id \in DOMAIN callSessions :
              LET a == Held(currentCall, incomingCall, u, id)
                  b == Held(currentCall', incomingCall', u, id)
              IN  (a # "none" /\ b # "none") => CallForward(a, b) ]_vars

AtMostOneActivePerPair ==
    \A a, b \in CallUsers : Cardinality(ActiveOfPair(callSessions, a, b)) <= 1

ClientCallState(u) == <<currentCall[u], incomingCall[u], isCallActive[u]>>

C9_RaceHasOneOutcome ==
    \A i, j \in DOMAIN wsCallLog :
        (/\ wsCallLog[i].id = wsCallLog[j].id
         /\ wsCallLog[i].race
         /\ wsCallLog[j].race
         /\ \E k \in 1..i : /\ k < j
                            /\ wsCallLog[k].id = wsCallLog[i].id
                            /\ wsCallLog[k].status = "ringing")
        => ~(wsCallLog[i].status = "connected" /\ wsCallLog[j].status = "ended")

WsLogOf(id) == SelectSeq(wsCallLog, LAMBDA e : e.id = id)

WsEventsOf(id) == [i \in DOMAIN WsLogOf(id) |-> WsLogOf(id)[i].event]

\* C11: a call that is initiated and then declined is observed as ringing and
\* then declined (not ended), with an end time and no duration
C11_DeclineYieldsDeclined ==
    \A id \in 1..MaxWsCalls :
        WsEventsOf(id) = <<"initiate-call", "reject-call">>
        => /\ WsLogOf(id)[1].status = "ringing"
           /\ WsLogOf(id)[2].status = "declined"
           /\ WsLogOf(id)[2].endTime # 0
           /\ WsLogOf(id)[2].duration = 0

\* C12: a call that is initiated, answered and ended is observed as ringing,
\* connected, ended, and the duration handed over with ended is the time from
\* the answer to the end
C12_AnswerEndSequence ==
    \A id \in 1..MaxWsCalls :
        WsEventsOf(id) = <<"initiate-call", "answer-call", "end-call">>
        => /\ WsLogOf(id)[1].status = "ringing"
           /\ WsLogOf(id)[2].status = "connected"
           /\ WsLogOf(id)[3].status = "ended"
           /\ WsLogOf(id)[3].duration = WsLogOf(id)[3].endTime - WsLogOf(id)[2].at

\* u's endCall(id) has just been answered by end-call
EndInvoked(u, id) ==
    /\ pendingOp[u] = NoPending
    /\ pendingOp'[u].op = "end"
    /\ pendingOp'[u].id = id

InitTyping ==
    /\ InitChatState
    /\ InitCallState
    /\ InitWsState
    /\ InitExtState
    /\ InitAuxState
    /\ dupLeft = 0
    /\ editsLeft = 0
    /\ connectsLeft = MaxConnects

NextTyping ==
    \/ StartTyping("u1", "c1")
    \/ StopTyping("u1", "c1")
    \/ \E op \in typingOps["u1"], merge \in BOOLEAN :
           StartTypingUpsert("u1", op, merge)
    \/ \E op \in typingOps["u1"] : StartTypingDone("u1", op)
    \/ \E op \in typingOps["u1"] : StopTypingDelete("u1", op)
    \/ \E op \in typingOps["u1"] : StopTypingDone("u1", op)
    \/ TypingTimeoutFires("u1", "c1")
    \/ \E e \in typingInbox["u2"], full \in BOOLEAN : TypingDeliver("u2", e, full)
    \/ \E u \in Clients : SubscribeToRealtime(u)
    \/ \E u \in Clients : UnsubscribeFromRealtime(u)

SpecTyping == InitTyping /\ [][NextTyping]_vars

\* C14: every reachable state holds at most one typing indicator per
\* (conversation, user) pair, among the stored typing_indicators rows and in
\* each store's typingIndicators list
C14_OneIndicatorPerPair ==
    /\ \A r1, r2 \in typingRows :
           (r1.conversation_id = r2.conversation_id /\ r1.user_id = r2.user_id)
           => r1 = r2
    /\ \A v \in Users : \A i, j \in DOMAIN typingIndicators[v] :
           (/\ typingIndicators[v][i].conversationId = typingIndicators[v][j].conversationId
            /\ typingIndicators[v][i].userId = typingIndicators[v][j].userId)
           => i = j

\* u1 started typing twice in c1 and the second upsert was merged into the
\* row of the first; u2 was handed both events and lists u1 once
C14_Witness ==
    /\ \E r \in typingRows : /\ r.conversation_id = "c1"
                             /\ r.user_id = "u1"
                             /\ r.updated_at # r.id
    /\ typingInbox["u2"] = {}
    /\ typingIndicators["u2"] = <<[conversationId |-> "c1", userId |-> "u1"]>>
    /\ typingSeq >= 2

\* timeouts run, storage answers and the calls resume after their awaits
SpecTypingFair ==
    /\ SpecTyping
    /\ WF_vars(TypingTimeoutFires("u1", "c1"))
    /\ WF_vars(\E op \in typingOps["u1"], merge \in BOOLEAN :
                   StartTypingUpsert("u1", op, merge))
    /\ WF_vars(\E op \in typingOps["u1"] : StartTypingDone("u1", op))
    /\ WF_vars(\E op \in typingOps["u1"] : StopTypingDelete("u1", op))
    /\ WF_vars(\E op \in typingOps["u1"] : StopTypingDone("u1", op))

\* C15: a typing indicator that was started expires without any further
\* action of its client: the stored indicator of u1 in c1 is eventually
\* removed (its removal is the one typing-stop the other participant is sent)
C15_TypingExpires ==
    (TypingRowsOf(typingRows, "c1", "u1") # {})
        ~> (TypingRowsOf(typingRows, "c1", "u1") = {})

\* an explicit stopTyping call of u for c returns in this step, and no
\* startTyping or stopTyping was called after it
StopTypingReturns(u, c) ==
    \E op \in typingOps[u] :
        /\ op.op = "stop" /\ op.conv = c /\ op.phase = "reply"
        /\ op.n = typingSeq
        /\ op \notin typingOps'[u]

\* C17: when an explicit stopTyping returns and nothing was typed after it was
\* called, the indicator of its key is absent from storage and no auto-stop
\* timeout of the key is pending
C17_StopClearsIndicatorAndTimer ==
    [][\A u \in Clients : \A c \in Convs :
          StopTypingReturns(u, c)
          => /\ TypingRowsOf(typingRows', c, u) = {}
             /\ c \notin typingTimeouts'[u]]_vars

\* C16: typing-start is sent only when the pair had no live indicator: two
\* typing-start emits of one conversation have a typing-stop of it between
\* them
C16_NoTypingStartOnRefresh ==
    \A i, j \in DOMAIN wsTypingLog :
        (/\ i < j
         /\ wsTypingLog[i] = wsTypingLog[j]
         /\ wsTypingLog[i].event = "typing-start")
        => \E k \in (i + 1)..(j - 1) :
               /\ wsTypingLog[k].conv = wsTypingLog[i].conv
               /\ wsTypingLog[k].event = "typing-stop"

\* C18: an event that was buffered while the connection was down is delivered
\* in emit order: nothing that was emitted after it is delivered before it
C18_QueueReplayedInOrder ==
    \A i, j \in DOMAIN wsCallLog :
        (i < j /\ wsCallLog[j].queued) => wsCallLog[i].n < wsCallLog[j].n

(* ------------------------------------------------------------------ *)
(* Specification of presence: two sessions per user                     *)
(* ------------------------------------------------------------------ *)
NextPresence ==
    \/ \E u \in Clients : SubscribeToRealtime(u)
    \/ \E u \in Clients : UnsubscribeFromRealtime(u)
    \/ \E u \in Clients : SecondSessionSubscribe(u)
    \/ \E u \in Clients : SecondSessionUnsubscribe(u)
    \/ SendMessage("u1", "c1", TRUE)

SpecPresence == InitTyping /\ [][NextPresence]_vars

\* C19: a user's stored status is online exactly when at least one of the
\* user's sessions is subscribed
C19_OnlineIffSomeSession ==
    \A u \in Clients :
        (dbProfiles[u] = "online")
        <=> (connectionStatus[u] = "connected" \/ extraSession[u])

(* ------------------------------------------------------------------ *)
(* Specification of conversation creation                               *)
(* ------------------------------------------------------------------ *)
NextConv ==
    \/ \E u \in Users, o \in Users : CreateConversationCheck(u, o)
    \/ \E u \in Users, o \in Users : CreateConversationInsert(u, o)

SpecConv == InitTyping /\ [][NextConv]_vars

\* C20: no two stored conversations are between the same two users,
\* whichever column order they were inserted with
C20_OneConversationPerPair ==
    \A i, j \in DOMAIN convRows :
        i # j => {convRows[i].participant_one, convRows[i].participant_two}
                     # {convRows[j].participant_one, convRows[j].participant_two}

(* ------------------------------------------------------------------ *)
(* Specification of sending while typing: u1 types and sends in c1      *)
(* ------------------------------------------------------------------ *)
NextSend ==
    \/ StartTyping("u1", "c1")
    \/ \E op \in typingOps["u1"], merge \in BOOLEAN :
           StartTypingUpsert("u1", op, merge)
    \/ \E op \in typingOps["u1"] : StartTypingDone("u1", op)
    \/ \E ok \in BOOLEAN : SendMessage("u1", "c1", ok)
    \/ SubscribeToRealtime("u2")
    \/ \E e \in typingInbox["u2"], full \in BOOLEAN : TypingDeliver("u2", e, full)

SpecSend == InitTyping /\ [][NextSend]_vars

\* C21: a sendMessage whose storage write fails changes nothing: no message
\* is stored or broadcast, the conversation timestamp stays, and the
\* sender's typing indicator, its timeout and the typing events in flight
\* are as they were before the call
C21_FailedSendChangesNothing ==
    [][\A u \in Users, c \in Convs :
          SendMessage(u, c, FALSE)
              => UNCHANGED <<dbMessages, inbox, dbConvUpdated, messages,
                             typingRows, typingTimeouts, typingInbox>>]_vars

(* ------------------------------------------------------------------ *)
(* Specification of the message input of u1 in c1                       *)
(* ------------------------------------------------------------------ *)
NextInput ==
    \/ \E value \in {"", "text"} : HandleInputChange("u1", "c1", value)
    \/ InputTimerFires("u1", "c1")
    \/ HandleSubmit("u1", "c1")
    \/ \E ok \in BOOLEAN : HandleSubmitSend("u1", "c1", ok)
    \/ \E op \in typingOps["u1"], merge \in BOOLEAN :
           StartTypingUpsert("u1", op, merge)
    \/ \E op \in typingOps["u1"] : StartTypingDone("u1", op)
    \/ \E op \in typingOps["u1"] : StopTypingDelete("u1", op)
    \/ \E op \in typingOps["u1"] : StopTypingDone("u1", op)
    \/ TypingTimeoutFires("u1", "c1")

SpecInput == InitTyping /\ [][NextInput]_vars

\* C22: a sendMessage that fails is seen to fail by handleSubmit, which
\* puts the unsent text back into the input
C22_FailedSendRestoresText ==
    [][\A u \in Clients, c \in Convs :
          HandleSubmitSend(u, c, FALSE) => inputMessage'[u] = submitting[u]]_vars

\* C24: when no startTyping / stopTyping call of u1 is in progress, a stored
\* typing indicator of (c1, u1) has an auto-stop timeout pending
C24_IndicatorHasTimer ==
    (typingOps["u1"] = {} /\ TypingRowsOf(typingRows, "c1", "u1") # {})
        => "c1" \in typingTimeouts["u1"]

\* C25: once a session is in a terminal status and the client has neither
\* an event of it in flight nor a handler or store action in progress, the
\* client's incomingCall is not that session
C25_NoRingingAfterTerminal ==
    \A u \in CallUsers : \A id \in DOMAIN callSessions :
        (/\ IsTerminal(callSessions[id].status)
         /\ handling[u] = {}
         /\ callInbox[u] = {}
         /\ pendingOp[u] = NoPending)
            => incomingCall[u].id # id

\* C27: when the client has no event in flight and no handler or store
\* action in progress, isCallActive holds exactly when currentCall is set
C27_ActiveIffCurrentCall ==
    \A u \in CallUsers :
        (handling[u] = {} /\ callInbox[u] = {} /\ pendingOp[u] = NoPending)
            => (isCallActive[u] <=> currentCall[u] # NoCall)

\* C26: fetchMessages of a conversation keeps every message that the list
\* shown for it holds (the model deletes no message)
C26_FetchKeepsReceivedMessages ==
    [][\A u \in Clients, c \in Convs :
          FetchMessages(u, c)
              => \A i \in DOMAIN messages[u][c] :
                     \E j \in DOMAIN messages'[u][c] :
                         messages'[u][c][j].id = messages[u][c][i].id]_vars

(* ------------------------------------------------------------------ *)
(* Specification of the call store with its WebRTC state                *)
(* ------------------------------------------------------------------ *)
\* u1 calls u2; u1's microphone may be refused and u1 may find end-call out
\* of reach; u1 mutes and receives the remote track; handler invocations
\* run one at a time
NextCallMedia ==
    \/ InitiateCallInvoke("u1", "u2", MaxRing)
    \/ \E media \in BOOLEAN : InitiateCallDone("u1", media)
    \/ AnswerCallInvoke("u2", 1)
    \/ AnswerCallDone("u2", TRUE)
    \/ \E u \in CallUsers : EndCallInvoke(u, 1)
    \/ EndCallInvokeFails("u1", 1)
    \/ \E u \in CallUsers : EndCallDone(u)
    \/ ToggleMute("u1")
    \/ OnTrack("u1")
    \/ \E u \in CallUsers : \E e \in callInbox[u] : CallEventStart(u, e, 1)
    \/ \E u \in CallUsers : \E h \in handling[u] : CallEventFetch(u, h)
    \/ \E u \in CallUsers : \E h \in handling[u] : CallEventApply(u, h)

SpecCallMedia == InitCall /\ [][NextCallMedia]_vars

\* the client holds no call and no WebRTC resource
CallCleared(u) ==
    /\ currentCall[u] = NoCall
    /\ incomingCall[u] = NoCall
    /\ ~isCallActive[u]
    /\ ~isMuted[u]
    /\ ~localStream[u]
    /\ ~remoteStream[u]
    /\ ~peerConnection[u]

\* the handler finishes for an event that reports a terminal status of the
\* call it read as current
TerminalEventApplied(u) ==
    \E h \in handling[u] :
        /\ CallEventApply(u, h)
        /\ h.cur # 0 /\ h.cur = h.fullCall.id
        /\ IsTerminal(h.fullCall.status)

\* C23: endCall, whether end-call succeeded or failed, and the handler of a
\* terminal event of the current call each leave the client with no current
\* or incoming call, not active, not muted, and without local stream,
\* remote stream and peer connection
C23_TerminationClearsCallAndMedia ==
    [][\A u \in CallUsers :
          (EndCallDone(u) \/ TerminalEventApplied(u)) => CallCleared(u)']_vars

\* u1 held a stream and a remote stream cannot be there unless a peer
\* connection was: after the session ended, everything of u1 is cleared
C23_Witness ==
    /\ callSessions # <<>>
    /\ IsTerminal(callSessions[1].status)
    /\ mediaOpened["u1"]
    /\ pendingOp["u1"] = NoPending
    /\ CallCleared("u1")

(* ------------------------------------------------------------------ *)
(* Specifications of MessageCacheManager                                *)
(* ------------------------------------------------------------------ *)
\* the cached lists of the conversations
NextCacheLists ==
    \/ \E c \in Convs, list \in McLists, hasMore \in BOOLEAN, t \in 0..MaxCacheClock :
           McSetCachedMessages(c, list, hasMore, t)
    \/ \E c \in Convs, i \in McIds, t \in 0..MaxCacheClock :
           McAddMessage(c, McMessage(i), t)
    \/ \E c \in Convs, i \in McIds : McRemoveMessage(c, i)
    \/ \E c \in Convs, list \in McLists, t \in 0..MaxCacheClock :
           McPrependMessages(c, list, t)

SpecCacheLists == InitChat /\ [][NextCacheLists]_vars

McIdCount(list, id) == Cardinality({i \in DOMAIN list : list[i].id = id})

\* C28: after setCachedMessages, addMessage, prependMessages and
\* removeMessage in any order a conversation's cached list is in
\* non-decreasing created_at order and holds no id twice, and addMessage of
\* an id that is cached leaves the cache as it is
C28_CacheSortedNoDuplicates ==
    [][/\ \A c \in Convs :
             /\ Sorted(mcCache'[c].messages)
             /\ \A id \in McIds : McIdCount(mcCache'[c].messages, id) <= 1
       /\ \A c \in Convs, id \in McIds, t \in 0..MaxCacheClock :
             (McAddMessage(c, McMessage(id), t)
                 /\ McIdCount(mcCache[c].messages, id) > 0)
                 => UNCHANGED mcCache]_vars

\* three messages are cached, which takes an addMessage or prependMessages
\* on top of a cached list, and the one created first is in front although
\* its id is not the smallest
C28_Witness ==
    /\ Len(mcCache["c1"].messages) = 3
    /\ mcCache["c1"].messages[1].id = 2

\* updateMessage calls, the batch timer and the lists they meet
NextCacheBatch ==
    \/ \E list \in McLists : McSetCachedMessages("c1", list, TRUE, 0)
    \/ \E i \in McIds : McRemoveMessage("c1", i)
    \/ \E id \in McIds, updates \in McUpdates : McUpdateMessage(id, updates)
    \/ McBatchTimerFires

\* a timer that was set runs its callback unless it is cleared, and
\* updateMessage sets a new one whenever it clears the old one
SpecCacheBatch ==
    InitChat /\ [][NextCacheBatch]_vars /\ WF_vars(McBatchTimerFires)

McFields == {"status", "content"}

\* the value updateMessage's caller expects a field of a message to take
McExpected(id, f, old) ==
    IF id \in DOMAIN mcPendingUpdates /\ f \in DOMAIN mcPendingUpdates[id]
    THEN mcPendingUpdates[id][f] ELSE old

C29_UpdateKept ==
    \A id \in McIds, updates \in McUpdates :
        McUpdateMessage(id, updates)
            => /\ DOMAIN mcPendingUpdates' = DOMAIN mcPendingUpdates \cup {id}
               /\ \A j \in DOMAIN mcPendingUpdates \ {id} :
                      mcPendingUpdates'[j] = mcPendingUpdates[j]
               /\ \A f \in DOMAIN updates : f \in DOMAIN mcPendingUpdates'[id]
                      /\ mcPendingUpdates'[id][f] = updates[f]
               /\ \A f \in McFields \ DOMAIN updates :
                      IF id \in DOMAIN mcPendingUpdates /\ f \in DOMAIN mcPendingUpdates[id]
                      THEN f \in DOMAIN mcPendingUpdates'[id]
                           /\ mcPendingUpdates'[id][f] = mcPendingUpdates[id][f]
                      ELSE f \notin DOMAIN mcPendingUpdates'[id]
               /\ mcBatchTimeout'

C29_BatchApplied ==
    McBatchTimerFires
        => /\ mcPendingUpdates' = <<>>
           /\ \A c \in Convs :
                 /\ Len(mcCache'[c].messages) = Len(mcCache[c].messages)
                 /\ \A i \in DOMAIN mcCache[c].messages :
                       /\ mcCache'[c].messages[i].id = mcCache[c].messages[i].id
                       /\ \A f \in McFields :
                             mcCache'[c].messages[i][f] =
                                 McExpected(mcCache[c].messages[i].id, f,
                                            mcCache[c].messages[i][f])

\* C29: an updateMessage call keeps every pending update of other messages
\* and of other fields of the same message and records its own fields over
\* earlier ones; the batch timer's callback writes every pending field into
\* the cached message of that id and leaves pendingUpdates empty; and pending
\* updates are always followed by that callback
C29_BatchLosesNoUpdate ==
    /\ [][C29_UpdateKept /\ C29_BatchApplied]_vars
    /\ (mcPendingUpdates # <<>>) ~> (mcPendingUpdates = <<>>)

\* two messages updated and written back: one by two calls on different
\* fields and a later call on the same field, the other by a single call
C29_Witness ==
    /\ mcPendingUpdates = <<>>
    /\ ~mcBatchTimeout
    /\ Len(mcCache["c1"].messages) = 2
    /\ \E i, j \in DOMAIN mcCache["c1"].messages :
          /\ mcCache["c1"].messages[i].id = 1
          /\ mcCache["c1"].messages[i].status = "read"
          /\ mcCache["c1"].messages[i].content = "edited"
          /\ mcCache["c1"].messages[j].id = 2
          /\ mcCache["c1"].messages[j].status = "delivered"

\* C30: from disconnect() to the next connect() the manager reports
\* 'disconnected', its queue is empty and no typing timeout is pending, and
\* reconnectAttempts is never above maxReconnectAttempts
C30_QuiescentAfterDisconnect ==
    /\ wsReconnectAttempts <= maxReconnectAttempts
    /\ ~wsUserId => /\ getConnectionStatus = "disconnected"
                    /\ wsMessageQueue = <<>>
                    /\ wsTypingTimeouts = {}

\* the parts of C30 apart from the reported status
C30_QueueTimersAttempts ==
    /\ wsReconnectAttempts <= maxReconnectAttempts
    /\ ~wsUserId => /\ getConnectionStatus # "connected"
                    /\ wsMessageQueue = <<>>
                    /\ wsTypingTimeouts = {}

Spec == SpecChat
====
